---------------------------- MODULE Spec2Model ----------------------------
(***************************************************************************)
(* A model of the MCP tool servers of this repository:                     *)
(*   src/claude_api_mcp_server.py  the HTTP server (FastAPI): MCPServer,   *)
(*                                 /tools, /tools/call                     *)
(*   src/mcp_server.py             the stdio JSON-RPC server: MCPServer,   *)
(*                                 handle_stdio                            *)
(* Python values are tagged records [t |-> type, v |-> value].  A Python   *)
(* str is an atom (a TLA+ string) except where the code iterates over its  *)
(* characters (the calculate expression), where it is a sequence of        *)
(* one-character strings.  A formatted message (an f-string) is a record   *)
(* [fmt |-> the template, args |-> the values substituted].                *)
(***************************************************************************)
EXTENDS Integers, Sequences, FiniteSets, TLC

(***************************************************************************)
(* Bounds of the model.                                                    *)
(***************************************************************************)
\* longest expression text drawn character by character
MaxLen == 4
\* most binary operators in a generated arithmetic expression
MaxOps == 2
\* most processes in the host's process table
MaxProcs == 3
\* most lines on the standard input of the stdio server
MaxLines == 3
\* most tool names in the list of a /claude/message-with-tools request
MaxNames == 3
\* largest magnitude of a numerator or denominator the model computes with;
\* a number beyond it is kept as a number of its type whose value is not tracked
\* (nor are Python's OverflowError of a float beyond 1.8e308 and its
\* ValueError on printing an int of more than 4300 digits, both far beyond it)
IntCap == 30000

(***************************************************************************)
(* Python values.                                                          *)
(***************************************************************************)
None == [t |-> "none"]
PyStr(s) == [t |-> "str", v |-> s]
\* a str given by its characters
PyChars(cs) == [t |-> "chars", v |-> cs]
PyInt(n) == [t |-> "int", v |-> n]
PyList(items) == [t |-> "list", v |-> items]
\* a float that is a percentage, in tenths of a percent
PyFloat(x) == [t |-> "float", v |-> x]
\* dict.get's answer for a missing key when no default is given is None; a
\* key that is not in the mapping is marked Absent
Absent == [t |-> "absent"]

\* bool(x) with every int taken for true
Truthy_any_int(x) ==
    CASE x.t = "none" -> FALSE
      [] x.t = "absent" -> FALSE
      [] x.t = "str" -> x.v # ""
      [] x.t = "chars" -> x.v # <<>>
      [] x.t = "float" -> x.v # 0
      [] OTHER -> TRUE

\* bool(x) of Python
Truthy(x) ==
    CASE x.t = "none" -> FALSE
      [] x.t = "absent" -> FALSE
      [] x.t = "str" -> x.v # ""
      [] x.t = "chars" -> x.v # <<>>
      [] x.t = "int" -> x.v # 0
      [] x.t = "float" -> x.v # 0
      [] OTHER -> TRUE

\* arguments.get(key, default)
Get(arguments, key, default) ==
    IF arguments[key] = Absent THEN default ELSE arguments[key]

\* x or default
Or(x, default) == IF Truthy(x) THEN x ELSE default

\* f-strings
Text(fmt, args) == [fmt |-> fmt, args |-> args]

\* what a call does: it returns a value or raises an exception
Return(value) == [raised |-> FALSE, value |-> value]
Raise(exc) == [raised |-> TRUE, exc |-> exc]

(***************************************************************************)
(* eval(expression): Python's tokenizer, expression grammar and arithmetic *)
(* on the characters the validator lets through, 0123456789+-*/.() .       *)
(*                                                                         *)
(* A number is [t |-> "int" | "float", n |-> numerator, d |-> denominator] *)
(* in lowest terms with d > 0: a float is modelled by the rational it      *)
(* stands for (the rounding of IEEE-754 doubles is not modelled).  d = 0   *)
(* marks a number whose value the model does not track (beyond IntCap, or  *)
(* an irrational power).                                                   *)
(***************************************************************************)
Digits == {"0", "1", "2", "3", "4", "5", "6", "7", "8", "9"}

DigitVal(c) ==
    CASE c = "0" -> 0 [] c = "1" -> 1 [] c = "2" -> 2 [] c = "3" -> 3
      [] c = "4" -> 4 [] c = "5" -> 5 [] c = "6" -> 6 [] c = "7" -> 7
      [] c = "8" -> 8 [] c = "9" -> 9

Abs(n) == IF n < 0 THEN -n ELSE n

RECURSIVE Gcd(_, _)
Gcd(a, b) == IF b = 0 THEN a ELSE Gcd(b, a % b)

Untracked(t) == [t |-> t, n |-> 0, d |-> 0]

\* the number n/d of type t, in lowest terms
Num(t, n, d) ==
    IF d = 0 THEN Untracked(t)
    ELSE LET s == IF d < 0 THEN -1 ELSE 1
             g == Gcd(Abs(n), Abs(d))
             nn == (s * n) \div g
             dd == (s * d) \div g
         IN  IF Abs(nn) > IntCap \/ dd > IntCap THEN Untracked(t)
             ELSE [t |-> t, n |-> nn, d |-> dd]

EmptyTuple == [t |-> "tuple", n |-> 0, d |-> 1]
Ellipsis == [t |-> "ellipsis", n |-> 0, d |-> 1]

IsNumber(x) == x.t \in {"int", "float", "complex"}
Tracked(x) == x.d # 0
IsZero(x) == Tracked(x) /\ x.n = 0

\* the first position from i on that holds no digit
RECURSIVE DigitsEnd(_, _)
DigitsEnd(s, i) ==
    IF i <= Len(s) /\ s[i] \in Digits THEN DigitsEnd(s, i + 1) ELSE i

\* the decimal value of the digits s[i..j-1], capped beyond IntCap
RECURSIVE DecValue(_, _, _, _)
DecValue(s, i, j, acc) ==
    IF i >= j THEN acc
    ELSE IF acc > IntCap THEN acc
    ELSE DecValue(s, i + 1, j, 10 * acc + DigitVal(s[i]))

RECURSIVE Pow10(_)
Pow10(k) == IF k = 0 THEN 1 ELSE IF k > 5 THEN IntCap + 1 ELSE 10 * Pow10(k - 1)

OpTok(s) == [k |-> "op", s |-> s]
NumTok(v) == [k |-> "num", v |-> v]
\* "leading zeros in decimal integer literals are not permitted"
BadTok == [k |-> "bad"]
EofTok == [k |-> "eof"]

\* s[i..j-1] has a digit other than 0
HasNonZero(s, i, j) == \E p \in i..(j - 1) : s[p] # "0"

\* an integer part s[i..j-1] and a fraction s[j+1..k-1] (a "." at j)
FloatLit(s, i, j, k) ==
    LET ip == DecValue(s, i, j, 0)
        fp == DecValue(s, j + 1, k, 0)
        sc == Pow10(k - (j + 1))
    IN  IF ip > IntCap \/ fp > IntCap \/ sc > IntCap THEN Untracked("float")
        ELSE Num("float", ip * sc + fp, sc)

IntLit(s, i, j) ==
    LET v == DecValue(s, i, j, 0)
    IN  IF v > IntCap THEN Untracked("int") ELSE Num("int", v, 1)

\* the tokens of s from position i on, as Python's tokenizer cuts them
RECURSIVE Tokenize(_, _)
Tokenize(s, i) ==
    IF i > Len(s) THEN <<>>
    ELSE LET c == s[i]
             c1 == IF i + 1 <= Len(s) THEN s[i + 1] ELSE ""
             c2 == IF i + 2 <= Len(s) THEN s[i + 2] ELSE ""
         IN
         CASE c = " " -> Tokenize(s, i + 1)
           [] c \in Digits ->
                LET j == DigitsEnd(s, i)
                IN  IF j <= Len(s) /\ s[j] = "."
                    THEN LET k == DigitsEnd(s, j + 1)
                         IN  <<NumTok(FloatLit(s, i, j, k))>> \o Tokenize(s, k)
                    ELSE IF c = "0" /\ HasNonZero(s, i, j)
                    THEN <<BadTok>> \o Tokenize(s, j)
                    ELSE <<NumTok(IntLit(s, i, j))>> \o Tokenize(s, j)
           [] c = "." ->
                IF c1 \in Digits
                THEN LET k == DigitsEnd(s, i + 1)
                     IN  <<NumTok(FloatLit(s, i, i, k))>> \o Tokenize(s, k)
                ELSE IF c1 = "." /\ c2 = "."
                THEN <<OpTok("...")>> \o Tokenize(s, i + 3)
                ELSE <<OpTok(".")>> \o Tokenize(s, i + 1)
           [] c = "*" ->
                IF c1 = "*" THEN <<OpTok("**")>> \o Tokenize(s, i + 2)
                ELSE <<OpTok("*")>> \o Tokenize(s, i + 1)
           [] c = "/" ->
                IF c1 = "/" THEN <<OpTok("//")>> \o Tokenize(s, i + 2)
                ELSE <<OpTok("/")>> \o Tokenize(s, i + 1)
           [] OTHER -> <<OpTok(c)>> \o Tokenize(s, i + 1)

(***************************************************************************)
(* The expression grammar (Grammar/python.gram, restricted to the tokens   *)
(* above): sum, term, factor, power, primary, atom.  A parse is            *)
(* [ok |-> TRUE, ast |-> tree, i |-> next token] or NoParse (SyntaxError). *)
(***************************************************************************)
Tok(ts, i) == IF i <= Len(ts) THEN ts[i] ELSE EofTok
IsOp(tok, ops) == tok.k = "op" /\ tok.s \in ops

NoParse == [ok |-> FALSE]
Parsed(ast, i) == [ok |-> TRUE, ast |-> ast, i |-> i]

NumNode(v) == [node |-> "num", v |-> v]
BinNode(o, l, r) == [node |-> "bin", o |-> o, l |-> l, r |-> r]
UnNode(o, e) == [node |-> "un", o |-> o, e |-> e]
CallNode(f, args) == [node |-> "call", f |-> f, args |-> args]
TupleNode == [node |-> "tuple"]
EllipsisNode == [node |-> "ellipsis"]

RECURSIVE ParseSum(_, _), SumRest(_, _), ParseTerm(_, _), TermRest(_, _),
          ParseFactor(_, _), ParsePower(_, _), ParsePrimary(_, _),
          PrimaryRest(_, _), ParseAtom(_, _)

\* the ')' that has to follow the expression e
Closed(ts, e) ==
    IF e.ok /\ IsOp(Tok(ts, e.i), {")"}) THEN Parsed(e.ast, e.i + 1) ELSE NoParse

\* atom: NUMBER | '...' | '(' ')' | '(' expression ')'
ParseAtom(ts, i) ==
    IF Tok(ts, i).k = "num" THEN Parsed(NumNode(Tok(ts, i).v), i + 1)
    ELSE IF IsOp(Tok(ts, i), {"..."}) THEN Parsed(EllipsisNode, i + 1)
    ELSE IF IsOp(Tok(ts, i), {"("})
    THEN IF IsOp(Tok(ts, i + 1), {")"}) THEN Parsed(TupleNode, i + 2)
         ELSE Closed(ts, ParseSum(ts, i + 1))
    ELSE NoParse

\* primary: primary '(' [arguments] ')' | atom; without a comma the
\* arguments are one expression, one '*' expression or one '**' expression
\* the call of p.ast with the one argument a
CallWith(p, a) ==
    IF a.ok THEN Parsed(CallNode(p.ast, <<a.ast>>), a.i) ELSE NoParse

PrimaryRest(ts, p) ==
    IF ~p.ok \/ ~IsOp(Tok(ts, p.i), {"("}) THEN p
    ELSE IF IsOp(Tok(ts, p.i + 1), {")"})
    THEN PrimaryRest(ts, Parsed(CallNode(p.ast, <<>>), p.i + 2))
    ELSE PrimaryRest(ts,
             CallWith(p, Closed(ts, ParseSum(ts,
                 IF IsOp(Tok(ts, p.i + 1), {"*", "**"}) THEN p.i + 2 ELSE p.i + 1))))

ParsePrimary(ts, i) == PrimaryRest(ts, ParseAtom(ts, i))

\* power: primary '**' factor | primary
\* the operation o of the operand l and the operand r, parsed after it
Binary(o, l, r) ==
    IF r.ok THEN Parsed(BinNode(o, l.ast, r.ast), r.i) ELSE NoParse

PowerRest(ts, p) ==
    IF p.ok /\ IsOp(Tok(ts, p.i), {"**"})
    THEN Binary("**", p, ParseFactor(ts, p.i + 1))
    ELSE p

ParsePower(ts, i) == PowerRest(ts, ParsePrimary(ts, i))

\* factor: '+' factor | '-' factor | power
\* the sign o before the operand f
Unary(o, f) == IF f.ok THEN Parsed(UnNode(o, f.ast), f.i) ELSE NoParse

ParseFactor(ts, i) ==
    IF IsOp(Tok(ts, i), {"+", "-"})
    THEN Unary(Tok(ts, i).s, ParseFactor(ts, i + 1))
    ELSE ParsePower(ts, i)

\* term: term '*' factor | term '/' factor | term '//' factor | factor
TermRest(ts, l) ==
    IF ~l.ok \/ ~IsOp(Tok(ts, l.i), {"*", "/", "//"}) THEN l
    ELSE TermRest(ts, Binary(Tok(ts, l.i).s, l, ParseFactor(ts, l.i + 1)))

ParseTerm(ts, i) == TermRest(ts, ParseFactor(ts, i))

\* sum: sum '+' term | sum '-' term | term
SumRest(ts, l) ==
    IF ~l.ok \/ ~IsOp(Tok(ts, l.i), {"+", "-"}) THEN l
    ELSE SumRest(ts, Binary(Tok(ts, l.i).s, l, ParseTerm(ts, l.i + 1)))

ParseSum(ts, i) == SumRest(ts, ParseTerm(ts, i))

\* compile(source, "<string>", "eval"): one expression and then the end
WholeInput(ts, e) == IF e.ok /\ e.i = Len(ts) + 1 THEN e ELSE NoParse

ParseInput(ts) == WholeInput(ts, ParseSum(ts, 1))

Compile(s) == ParseInput(Tokenize(s, 1))

(***************************************************************************)
(* Python's arithmetic on the values an expression can have: int, float,   *)
(* complex (a negative number to a fractional power), the empty tuple ()   *)
(* and Ellipsis.  An evaluation is Return(value) or Raise(exception).      *)
(***************************************************************************)
\* the type of the result of an arithmetic operation on two numbers
Wider(x, y) ==
    IF "complex" \in {x.t, y.t} THEN "complex"
    ELSE IF "float" \in {x.t, y.t} THEN "float"
    ELSE "int"

PyAdd(x, y) ==
    IF IsNumber(x) /\ IsNumber(y)
    THEN IF Tracked(x) /\ Tracked(y)
         THEN Return(Num(Wider(x, y), x.n * y.d + y.n * x.d, x.d * y.d))
         ELSE Return(Untracked(Wider(x, y)))
    ELSE IF x.t = "tuple" /\ y.t = "tuple" THEN Return(EmptyTuple)
    ELSE Raise("TypeError")

PySub(x, y) ==
    IF IsNumber(x) /\ IsNumber(y)
    THEN IF Tracked(x) /\ Tracked(y)
         THEN Return(Num(Wider(x, y), x.n * y.d - y.n * x.d, x.d * y.d))
         ELSE Return(Untracked(Wider(x, y)))
    ELSE Raise("TypeError")

PyMul(x, y) ==
    IF IsNumber(x) /\ IsNumber(y)
    THEN IF Tracked(x) /\ Tracked(y)
         THEN Return(Num(Wider(x, y), x.n * y.n, x.d * y.d))
         ELSE Return(Untracked(Wider(x, y)))
    \* a sequence times an int is the sequence repeated
    ELSE IF {x.t, y.t} = {"tuple", "int"} THEN Return(EmptyTuple)
    ELSE Raise("TypeError")

\* x / y: true division, a float also of two ints
PyTrueDiv(x, y) ==
    IF IsNumber(x) /\ IsNumber(y)
    THEN IF IsZero(y) THEN Raise("ZeroDivisionError")
         ELSE IF Tracked(x) /\ Tracked(y)
         THEN Return(Num(IF Wider(x, y) = "int" THEN "float" ELSE Wider(x, y),
                         x.n * y.d, x.d * y.n))
         ELSE Return(Untracked(IF Wider(x, y) = "int" THEN "float" ELSE Wider(x, y)))
    ELSE Raise("TypeError")

\* the largest integer that is at most p/q, for q > 0
Floor(p, q) == IF p >= 0 THEN p \div q ELSE -((-p + q - 1) \div q)

\* x // y: floor division
PyFloorDiv(x, y) ==
    IF IsNumber(x) /\ IsNumber(y)
    THEN IF "complex" \in {x.t, y.t} THEN Raise("TypeError")
         ELSE IF IsZero(y) THEN Raise("ZeroDivisionError")
         ELSE IF Tracked(x) /\ Tracked(y)
         THEN LET q == Num("float", x.n * y.d, x.d * y.n)
              IN  IF Tracked(q) THEN Return(Num(Wider(x, y), Floor(q.n, q.d), 1))
                  ELSE Return(Untracked(Wider(x, y)))
         ELSE Return(Untracked(Wider(x, y)))
    ELSE Raise("TypeError")

\* acc * b^e for e >= 0, cut short once the magnitude is beyond IntCap
RECURSIVE IntPowAcc(_, _, _)
IntPowAcc(b, e, acc) ==
    IF e = 0 \/ Abs(acc) > IntCap THEN acc
    ELSE IF Abs(acc * b) > IntCap THEN IntCap + 1
    ELSE IntPowAcc(b, e - 1, acc * b)

\* b to the power e for e >= 0, IntCap + 1 once the magnitude is beyond IntCap
IntPow(b, e) ==
    IF e = 0 \/ b = 1 THEN 1
    ELSE IF b = 0 THEN 0
    ELSE IF b = -1 THEN (IF e % 2 = 0 THEN 1 ELSE -1)
    ELSE IntPowAcc(b, e, 1)

\* x ** y
PyPow(x, y) ==
    IF ~(IsNumber(x) /\ IsNumber(y)) THEN Raise("TypeError")
    ELSE IF ~(Tracked(x) /\ Tracked(y)) THEN Return(Untracked(Wider(x, y)))
    ELSE IF y.d = 1
    THEN \* an integral exponent
         IF y.n >= 0
         THEN IF Abs(x.n) <= 1 /\ x.d = 1
              THEN Return(Num(Wider(x, y), IF y.n = 0 THEN 1
                                            ELSE IF x.n = -1 /\ y.n % 2 = 0 THEN 1
                                            ELSE x.n, 1))
              ELSE IF y.n > IntCap THEN Return(Untracked(Wider(x, y)))
              ELSE LET pn == IntPow(x.n, y.n)
                       pd == IntPow(x.d, y.n)
                   IN  IF Abs(pn) > IntCap \/ pd > IntCap
                       THEN Return(Untracked(Wider(x, y)))
                       ELSE Return(Num(Wider(x, y), pn, pd))
         ELSE IF x.n = 0 THEN Raise("ZeroDivisionError")
         ELSE IF -y.n > IntCap THEN Return(Untracked("float"))
         ELSE LET pn == IntPow(x.d, -y.n)
                  pd == IntPow(x.n, -y.n)
              IN  IF Abs(pn) > IntCap \/ Abs(pd) > IntCap
                  THEN Return(Untracked("float"))
                  ELSE Return(Num("float", pn, pd))
    ELSE \* a fractional exponent
         IF x.n = 0 THEN IF y.n > 0 THEN Return(Num("float", 0, 1))
                         ELSE Raise("ZeroDivisionError")
         ELSE IF x.n = x.d THEN Return(Num("float", 1, 1))
         ELSE IF x.n < 0 THEN Return(Untracked("complex"))
         ELSE Return(Untracked("float"))

PyNeg(x) ==
    IF IsNumber(x) THEN Return(IF Tracked(x) THEN Num(x.t, -x.n, x.d) ELSE x)
    ELSE Raise("TypeError")

PyPos(x) == IF IsNumber(x) THEN Return(x) ELSE Raise("TypeError")

BinOp(o, x, y) ==
    CASE o = "+" -> PyAdd(x, y)
      [] o = "-" -> PySub(x, y)
      [] o = "*" -> PyMul(x, y)
      [] o = "/" -> PyTrueDiv(x, y)
      [] o = "//" -> PyFloorDiv(x, y)
      [] o = "**" -> PyPow(x, y)

\* the evaluation of a tree: the operands left to right, then the operation
RECURSIVE Evaluate(_)
Evaluate(ast) ==
    CASE ast.node = "num" -> Return(ast.v)
      [] ast.node = "tuple" -> Return(EmptyTuple)
      [] ast.node = "ellipsis" -> Return(Ellipsis)
      [] ast.node = "un" ->
            LET e == Evaluate(ast.e)
            IN  IF e.raised THEN e
                ELSE IF ast.o = "-" THEN PyNeg(e.value) ELSE PyPos(e.value)
      [] ast.node = "bin" ->
            LET l == Evaluate(ast.l)
            IN  IF l.raised THEN l
                ELSE LET r == Evaluate(ast.r)
                     IN  IF r.raised THEN r ELSE BinOp(ast.o, l.value, r.value)
      [] ast.node = "call" ->
            LET f == Evaluate(ast.f)
            IN  IF f.raised THEN f
                ELSE IF ast.args = <<>> THEN Raise("TypeError")
                ELSE LET a == Evaluate(ast.args[1])
                     IN  IF a.raised THEN a
                         \* no value of these types is callable
                         ELSE Raise("TypeError")

\* eval(expression) for a str expression
Run(code) == IF ~code.ok THEN Raise("SyntaxError") ELSE Evaluate(code.ast)

eval(expression) == Run(Compile(expression))

(***************************************************************************)
(* The HTTP server's MCPServer (src/claude_api_mcp_server.py).             *)
(*                                                                         *)
(* A handler's answer is [out |-> Return(text) or Raise(exception),        *)
(* effects |-> what it did to the host, in order].  The host's answers to  *)
(* the handler (a process that denies access, a command's exit status) are *)
(* the record env.                                                         *)
(***************************************************************************)
Did(out, effects) == [out |-> out, effects |-> effects]
Effect(op, arg) == [op |-> op, arg |-> arg]

\* a tool descriptor: its name, the names of its properties, the required ones
Descriptor(name, properties, required) ==
    [name |-> name, properties |-> properties, required |-> required]

\* MCPServer.__init__: self.tools
MCPServer_tools ==
    << Descriptor("hello_world", {"name"}, <<"name">>),
       Descriptor("get_current_time", {}, <<>>),
       Descriptor("calculate", {"expression"}, <<"expression">>),
       Descriptor("system_info", {"info_type"}, <<"info_type">>),
       Descriptor("process_list", {"max_processes", "sort_by"}, <<>>),
       Descriptor("process_control", {"action", "process_name", "process_id"},
                  <<"action">>),
       Descriptor("service_management", {"action", "service_name"},
                  <<"action", "service_name">>) >>

\* the keys of an argument mapping that some handler reads
ArgKeys ==
    {"name", "expression", "info_type", "max_processes", "sort_by", "action",
     "process_name", "process_id", "service_name"}

NoArguments == [k \in ArgKeys |-> Absent]

\* try: ... except Exception as e: return <message with str(e)>
ExceptException(did, fmt) ==
    IF did.out.raised THEN Did(Return(Text(fmt, <<did.out.exc>>)), did.effects)
    ELSE did

\* ---- hello_world and get_current_time ----
hello_world(arguments) ==
    Did(Return(Text("hello", <<Get(arguments, "name", PyStr("world"))>>)), <<>>)

get_current_time == Did(Return(Text("current_time", <<"now">>)), <<>>)

\* ---- calculate ----
allowed_chars ==
    {"0", "1", "2", "3", "4", "5", "6", "7", "8", "9",
     "+", "-", "*", "/", ".", "(", ")", " "}

\* the validator with any(...) written for all(...)
all_allowed_any(cs) == \E i \in 1..Len(cs) : cs[i] \in allowed_chars

\* all(c in allowed_chars for c in expression)
all_allowed(cs) == \A i \in 1..Len(cs) : cs[i] \in allowed_chars

\* the evaluation with only a SyntaxError caught
calculate_try_syntax_only(cs, r) ==
    Did(IF r.raised
        THEN IF r.exc = "SyntaxError" THEN Return(Text("calc_error", <<r.exc>>))
             ELSE r
        ELSE Return(Text("calc_result", <<cs, r.value>>)),
        <<Effect("eval", cs)>>)

\* try: ... return "result" except Exception: "error", r being what eval did
calculate_try(cs, r) ==
    ExceptException(
        Did(IF r.raised THEN r
            ELSE Return(Text("calc_result", <<cs, r.value>>)),
            <<Effect("eval", cs)>>),
        "calc_error")

\* result = eval(expression) inside the try
calculate_eval(cs) == calculate_try(cs, eval(cs))

calculate(arguments) ==
    LET expression == Get(arguments, "expression", PyChars(<<>>))
    IN  \* iterating over a value that is no str: 'int' object is not iterable
        IF expression.t # "chars" THEN Did(Raise("TypeError"), <<>>)
        ELSE IF ~all_allowed(expression.v)
        THEN Did(Return(Text("forbidden_chars", <<>>)), <<>>)
        ELSE calculate_eval(expression.v)

\* ---- system_info ----
\* the psutil queries of the detailed report raise when the host refuses
get_system_info_basic == Did(Return(Text("sysinfo_basic", <<>>)), <<>>)

get_system_info_detailed(env) ==
    ExceptException(
        Did(IF env.query = "ok" THEN Return(Text("sysinfo_detailed", <<>>))
            ELSE Raise(env.query), <<>>),
        "sysinfo_error")

get_system_info(info_type, env) ==
    IF info_type.t = "str" /\ info_type.v = "basic" THEN get_system_info_basic
    ELSE IF info_type.t = "str" /\ info_type.v = "detailed"
    THEN get_system_info_detailed(env)
    ELSE Did(Return(Text("sysinfo_all",
                         <<get_system_info_basic.out.value,
                           get_system_info_detailed(env).out.value>>)), <<>>)

\* ---- process_list ----
Lowercase ==
    <<"a", "b", "c", "d", "e", "f", "g", "h", "i", "j", "k", "l", "m",
      "n", "o", "p", "q", "r", "s", "t", "u", "v", "w", "x", "y", "z">>
Uppercase ==
    <<"A", "B", "C", "D", "E", "F", "G", "H", "I", "J", "K", "L", "M",
      "N", "O", "P", "Q", "R", "S", "T", "U", "V", "W", "X", "Y", "Z">>

IndexIn(seq, c) == CHOOSE i \in 1..Len(seq) : seq[i] = c
IsUpper(c) == \E i \in 1..Len(Uppercase) : Uppercase[i] = c

\* ord(c) for a letter
Ord(c) == IF IsUpper(c) THEN 64 + IndexIn(Uppercase, c) ELSE 96 + IndexIn(Lowercase, c)

\* str.lower()
lower(cs) ==
    [i \in 1..Len(cs) |->
        IF IsUpper(cs[i]) THEN Lowercase[IndexIn(Uppercase, cs[i])] ELSE cs[i]]

\* a < b for two strs: by code points, a proper prefix first
RECURSIVE StrLess(_, _)
StrLess(a, b) ==
    IF b = <<>> THEN FALSE
    ELSE IF a = <<>> THEN TRUE
    ELSE IF Ord(Head(a)) # Ord(Head(b)) THEN Ord(Head(a)) < Ord(Head(b))
    ELSE StrLess(Tail(a), Tail(b))

UnknownName == PyChars(<<"U", "n", "k", "n", "o", "w", "n">>)

\* the dict built from proc.info, each missing field replaced
process_info(proc) ==
    [pid |-> Or(proc.pid, PyInt(0)),
     name |-> Or(proc.name, UnknownName),
     cpu_percent |-> Or(proc.cpu_percent, PyFloat(0)),
     memory_percent |-> Or(proc.memory_percent, PyFloat(0)),
     status |-> Or(proc.status, PyStr("Unknown"))]

\* whether list.sort puts a strictly before b under the key of sort_by
SortsBefore(sort_by, a, b) ==
    CASE sort_by = "cpu" ->
            Or(a.cpu_percent, PyFloat(0)).v > Or(b.cpu_percent, PyFloat(0)).v
      [] sort_by = "memory" ->
            Or(a.memory_percent, PyFloat(0)).v > Or(b.memory_percent, PyFloat(0)).v
      [] sort_by = "name" ->
            StrLess(lower(Or(a.name, PyChars(<<>>)).v), lower(Or(b.name, PyChars(<<>>)).v))

\* x put into a sorted list before the first element it sorts strictly before
RECURSIVE SortedInsert(_, _, _)
SortedInsert(sort_by, sorted, x) ==
    IF sorted = <<>> THEN <<x>>
    ELSE IF SortsBefore(sort_by, x, Head(sorted)) THEN <<x>> \o sorted
    ELSE <<Head(sorted)>> \o SortedInsert(sort_by, Tail(sorted), x)

\* list.sort(key=..., reverse=...): a stable sort
RECURSIVE StableSort(_, _, _)
StableSort(sort_by, done, todo) ==
    IF todo = <<>> THEN done
    ELSE StableSort(sort_by, SortedInsert(sort_by, done, Head(todo)), Tail(todo))

\* processes.sort(...) under sort_by, a list left as it is under any other value
sort_processes(processes, sort_by) ==
    IF sort_by.t = "str" /\ sort_by.v \in {"cpu", "memory", "name"}
    THEN StableSort(sort_by.v, <<>>, processes)
    ELSE processes

Min(a, b) == IF a < b THEN a ELSE b
Max(a, b) == IF a > b THEN a ELSE b

\* processes[:max_processes]
slice_to(processes, max_processes) ==
    CASE max_processes.t = "int" /\ max_processes.v >= 0 ->
            Return(SubSeq(processes, 1, Min(max_processes.v, Len(processes))))
      [] max_processes.t = "int" /\ max_processes.v < 0 ->
            Return(SubSeq(processes, 1, Max(0, Len(processes) + max_processes.v)))
      [] max_processes.t = "none" -> Return(processes)
      [] OTHER -> Raise("TypeError")

\* the result text: one row per process and the count in the last line
format_processes(processes) ==
    Text("process_list",
         <<[i \in 1..Len(processes) |->
               <<processes[i].pid, processes[i].name,
                 Or(processes[i].cpu_percent, PyFloat(0)),
                 Or(processes[i].memory_percent, PyFloat(0)),
                 processes[i].status>>],
           Len(processes)>>)

\* the listing cut to max_processes before it is sorted
get_process_list_cut_first(max_processes, sort_by, table, env) ==
    ExceptException(
        IF env.query # "ok" THEN Did(Raise(env.query), <<>>)
        ELSE LET processes == [i \in 1..Len(table) |-> process_info(table[i])]
                 top == slice_to(processes, max_processes)
             IN  IF top.raised THEN Did(top, <<>>)
                 ELSE Did(Return(format_processes(sort_processes(top.value, sort_by))),
                          <<>>),
        "process_list_error")

get_process_list(max_processes, sort_by, table, env) ==
    ExceptException(
        IF env.query # "ok" THEN Did(Raise(env.query), <<>>)
        ELSE LET processes == [i \in 1..Len(table) |-> process_info(table[i])]
                 top == slice_to(sort_processes(processes, sort_by), max_processes)
             IN  IF top.raised THEN Did(top, <<>>)
                 ELSE Did(Return(format_processes(top.value)), <<>>),
        "process_list_error")

\* ---- process_control ----
\* a comparison that any str passes
Is_any_str(x, literal) == x.t = "str"

\* action == "start" and the like: a str equal to the literal
Is(x, literal) == x.t = "str" /\ x.v = literal

LivePids(table) == {table[i].pid.v : i \in 1..Len(table)}

\* psutil.Process(pid) and then the signal sig ("terminate" or "kill") sent to
\* it; env.psutil is what the process answers once it is found
signal_process(process_id, sig, table, env) ==
    IF process_id.t # "int" THEN Did(Raise("TypeError"), <<>>)
    ELSE IF process_id.v < 0 THEN Did(Raise("ValueError"), <<>>)
    ELSE IF process_id.v \notin LivePids(table) THEN Did(Raise("NoSuchProcess"), <<>>)
    ELSE IF env.psutil # "ok"
    THEN Did(Raise(env.psutil), <<Effect("lookup", process_id.v)>>)
    ELSE Did(Return(None), <<Effect("lookup", process_id.v), Effect(sig, process_id.v)>>)

\* the try with no except psutil.NoSuchProcess
signal_and_report_uncaught(process_id, sig, after, done, table, env) ==
    Did(IF signal_process(process_id, sig, table, env).out.raised
        THEN signal_process(process_id, sig, table, env).out
        ELSE Return(Text(done, <<process_id>>)),
        IF signal_process(process_id, sig, table, env).out.raised
        THEN signal_process(process_id, sig, table, env).effects
        ELSE signal_process(process_id, sig, table, env).effects \o after)

\* <after> done first, whether or not the process is found
signal_and_report_after_first(process_id, sig, after, done, table, env) ==
    Did(IF ~signal_process(process_id, sig, table, env).out.raised
        THEN Return(Text(done, <<process_id>>))
        ELSE IF signal_process(process_id, sig, table, env).out.exc = "NoSuchProcess"
        THEN Return(Text("process_not_found", <<process_id>>))
        ELSE signal_process(process_id, sig, table, env).out,
        after \o signal_process(process_id, sig, table, env).effects)

\* try: <signal>; <after>; return done  except psutil.NoSuchProcess: not found
signal_and_report(process_id, sig, after, done, table, env) ==
    LET s == signal_process(process_id, sig, table, env)
    IN  IF s.out.raised
        THEN IF s.out.exc = "NoSuchProcess"
             THEN Did(Return(Text("process_not_found", <<process_id>>)), s.effects)
             ELSE s
        ELSE Did(Return(Text(done, <<process_id>>)), s.effects \o after)

\* the target check left out
no_target_unchecked(process_name, process_id) == FALSE

\* not process_name and not process_id
no_target(process_name, process_id) == ~Truthy(process_name) /\ ~Truthy(process_id)

\* the message sent with the first live process signalled for the name
advise_and_signal(fmt, process_name, table) ==
    Did(Return(Text(fmt, <<process_name>>)),
        IF table = <<>> THEN <<Effect("spawn", process_name)>>
        ELSE <<Effect("terminate", table[1].pid.v)>>)

\* return f"... '{process_name}' ...": a message, and nothing done
advise(fmt, process_name, table) == Did(Return(Text(fmt, <<process_name>>)), <<>>)

control_process(action, process_name, process_id, table, env) ==
    ExceptException(
        IF no_target(process_name, process_id)
        THEN Did(Return(Text("target_missing", <<>>)), <<>>)
        ELSE IF Is(action, "start")
        THEN IF ~Truthy(process_name)
             THEN Did(Return(Text("start_needs_name", <<>>)), <<>>)
             ELSE advise("start_not_executed", process_name, table)
        ELSE IF Is(action, "stop")
        THEN IF Truthy(process_id)
             THEN signal_and_report(process_id, "terminate", <<>>, "stop_sent", table, env)
             ELSE advise("stop_not_executed", process_name, table)
        ELSE IF Is(action, "restart")
        THEN IF Truthy(process_id)
             THEN signal_and_report(process_id, "terminate", <<Effect("sleep", 1)>>,
                                    "restart_attempted", table, env)
             ELSE advise("restart_not_executed", process_name, table)
        ELSE IF Is(action, "kill")
        THEN IF Truthy(process_id)
             THEN signal_and_report(process_id, "kill", <<>>, "killed", table, env)
             ELSE advise("kill_not_executed", process_name, table)
        ELSE Did(Return(Text("unknown_action", <<action>>)), <<>>),
        "process_control_error")

\* ---- service_management ----
\* the timeout= of every subprocess.run
CommandTimeout == 10

\* subprocess.run with twice the timeout
run_slow(cmd, answer) ==
    Did(IF cmd[3].t # "str" THEN Raise("TypeError")
        ELSE IF answer \in {"rc0", "rc1"} THEN Return(answer)
        ELSE Raise(answer),
        IF cmd[3].t # "str" THEN <<>>
        ELSE <<Effect("run", [cmd |-> cmd, timeout |-> 2 * CommandTimeout,
                              answer |-> answer])>>)

\* subprocess.run(cmd, capture_output=True, text=True, timeout=10); answer is
\* how the command ends: "rc0", "rc1" (a non-zero exit status) or the
\* exception subprocess.run raises
run(cmd, answer) ==
    Did(IF cmd[3].t # "str" THEN Raise("TypeError")
        ELSE IF answer \in {"rc0", "rc1"} THEN Return(answer)
        ELSE Raise(answer),
        IF cmd[3].t # "str" THEN <<>>
        ELSE <<Effect("run", [cmd |-> cmd, timeout |-> CommandTimeout,
                              answer |-> answer])>>)

\* one command, and the success or the failure text after its exit status
run_and_report(cmd, answer, ok, failed, service_name) ==
    LET r == run(cmd, answer)
    IN  IF r.out.raised THEN r
        ELSE IF r.out.value = "rc0"
        THEN Did(Return(Text(ok, <<service_name, "stdout">>)), r.effects)
        ELSE Did(Return(Text(failed, <<service_name, "stderr">>)), r.effects)

\* sc stop and then sc start, whatever the exit status of the stop
windows_restart_both(service_name, env) ==
    Did(Return(Text("service_restart_ok", <<service_name, "stdout">>)),
        run(<<"sc", "stop", service_name>>, env.cmd1).effects
            \o run(<<"sc", "start", service_name>>, env.cmd2).effects)

\* the Windows restart with the exit status of sc start looked at
windows_restart_checked(service_name, env) ==
    IF run(<<"sc", "stop", service_name>>, env.cmd1).out.raised
    THEN run(<<"sc", "stop", service_name>>, env.cmd1)
    ELSE IF run(<<"sc", "stop", service_name>>, env.cmd1).out.value = "rc1"
    THEN Did(Return(Text("service_restart_failed", <<service_name, "stderr">>)),
             run(<<"sc", "stop", service_name>>, env.cmd1).effects)
    ELSE run_and_report(<<"sc", "start", service_name>>, env.cmd2, "service_restart_ok",
                        "service_restart_failed", service_name)

\* the Windows restart: sc stop and, after exit status 0, sc start
windows_restart(service_name, env) ==
    LET stop == run(<<"sc", "stop", service_name>>, env.cmd1)
    IN  IF stop.out.raised THEN stop
        ELSE IF stop.out.value = "rc0"
        THEN LET start == run(<<"sc", "start", service_name>>, env.cmd2)
             IN  IF start.out.raised THEN Did(start.out, stop.effects \o start.effects)
                 ELSE Did(Return(Text("service_restart_ok", <<service_name, "stdout">>)),
                          stop.effects \o start.effects)
        ELSE Did(Return(Text("service_restart_failed", <<service_name, "stderr">>)),
                 stop.effects)

\* every platform but Windows taken for a systemctl host
is_posix_not_windows(system) == system # "Windows"

\* platform.system() in ["Darwin", "Linux"]
is_posix(system) == system \in {"Darwin", "Linux"}

manage_service(action, service_name, system, env) ==
    ExceptException(
        IF ~Truthy(service_name)
        THEN Did(Return(Text("service_name_missing", <<>>)), <<>>)
        ELSE IF is_posix(system)
        THEN IF Is(action, "status")
             THEN run_and_report(<<"systemctl", "status", service_name>>, env.cmd1,
                                 "service_status", "service_status_failed", service_name)
             ELSE IF Is(action, "start")
             THEN run_and_report(<<"systemctl", "start", service_name>>, env.cmd1,
                                 "service_start_ok", "service_start_failed", service_name)
             ELSE IF Is(action, "stop")
             THEN run_and_report(<<"systemctl", "stop", service_name>>, env.cmd1,
                                 "service_stop_ok", "service_stop_failed", service_name)
             ELSE IF Is(action, "restart")
             THEN run_and_report(<<"systemctl", "restart", service_name>>, env.cmd1,
                                 "service_restart_ok", "service_restart_failed",
                                 service_name)
             ELSE Did(Return(Text("unknown_action", <<action>>)), <<>>)
        ELSE IF system = "Windows"
        THEN IF Is(action, "status")
             THEN run_and_report(<<"sc", "query", service_name>>, env.cmd1,
                                 "service_status", "service_status_failed", service_name)
             ELSE IF Is(action, "start")
             THEN run_and_report(<<"sc", "start", service_name>>, env.cmd1,
                                 "service_start_ok", "service_start_failed", service_name)
             ELSE IF Is(action, "stop")
             THEN run_and_report(<<"sc", "stop", service_name>>, env.cmd1,
                                 "service_stop_ok", "service_stop_failed", service_name)
             ELSE IF Is(action, "restart")
             THEN windows_restart(service_name, env)
             ELSE Did(Return(Text("unknown_action", <<action>>)), <<>>)
        ELSE Did(Return(Text("unsupported_platform", <<system>>)), <<>>),
        "service_error")

\* ---- execute_tool ----
\* the chain with its last elif left out
execute_tool_branch_short(tool_name) ==
    IF tool_name = "hello_world" THEN "hello_world"
    ELSE IF tool_name = "get_current_time" THEN "get_current_time"
    ELSE IF tool_name = "calculate" THEN "calculate"
    ELSE IF tool_name = "system_info" THEN "system_info"
    ELSE IF tool_name = "process_list" THEN "process_list"
    ELSE IF tool_name = "process_control" THEN "process_control"
    ELSE "else"

\* the if/elif chain of execute_tool: the branch a tool name takes
execute_tool_branch(tool_name) ==
    IF tool_name = "hello_world" THEN "hello_world"
    ELSE IF tool_name = "get_current_time" THEN "get_current_time"
    ELSE IF tool_name = "calculate" THEN "calculate"
    ELSE IF tool_name = "system_info" THEN "system_info"
    ELSE IF tool_name = "process_list" THEN "process_list"
    ELSE IF tool_name = "process_control" THEN "process_control"
    ELSE IF tool_name = "service_management" THEN "service_management"
    ELSE "else"

\* the body of each branch
execute_tool_body(branch, tool_name, arguments, system, table, env) ==
    CASE branch = "hello_world" -> hello_world(arguments)
      [] branch = "get_current_time" -> get_current_time
      [] branch = "calculate" -> calculate(arguments)
      [] branch = "system_info" ->
            get_system_info(Get(arguments, "info_type", PyStr("basic")), env)
      [] branch = "process_list" ->
            get_process_list(Get(arguments, "max_processes", PyInt(20)),
                             Get(arguments, "sort_by", PyStr("cpu")), table, env)
      [] branch = "process_control" ->
            control_process(Get(arguments, "action", None),
                            Get(arguments, "process_name", None),
                            Get(arguments, "process_id", None), table, env)
      [] branch = "service_management" ->
            manage_service(Get(arguments, "action", None),
                           Get(arguments, "service_name", None), system, env)
      [] OTHER -> Did(Return(Text("unknown_tool", <<tool_name>>)), <<>>)

\* the chain with no except around it
execute_tool_unguarded(did) == did

\* the except Exception around the chain
execute_tool_except(did) == ExceptException(did, "tool_error")

\* MCPServer.execute_tool: what it does, and the branch it took
Executed(did, branch) == [out |-> did.out, effects |-> did.effects, branch |-> branch]

execute_tool(tool_name, arguments, system, table, env) ==
    Executed(execute_tool_except(
                 execute_tool_body(execute_tool_branch(tool_name), tool_name,
                                   arguments, system, table, env)),
             execute_tool_branch(tool_name))

\* ToolCallResponse
ToolCallResponse(success, result, error) ==
    [success |-> success, result |-> result, error |-> error]

\* the empty str as a result
EmptyText == Text("", <<>>)

\* the response with the unknown-tool text of execute_tool taken for a failure
call_tool_response_by_text(did) ==
    IF did.out.raised
    THEN ToolCallResponse(FALSE, EmptyText, PyStr(did.out.exc))
    ELSE IF did.out.value.fmt = "unknown_tool"
    THEN ToolCallResponse(FALSE, EmptyText, PyStr("unknown_tool"))
    ELSE ToolCallResponse(TRUE, did.out.value, None)

\* call_tool: the response made from what execute_tool did
call_tool_response(executed) ==
    IF executed.out.raised
    THEN ToolCallResponse(FALSE, EmptyText, PyStr(executed.out.exc))
    ELSE ToolCallResponse(TRUE, executed.out.value, None)

(***************************************************************************)
(* The configuration (src/config.py) and the Claude endpoints.             *)
(***************************************************************************)
\* what Config reads: the text of the .api_key file ("" when there is none
\* or it cannot be read), ANTHROPIC_API_KEY, MCP_SERVER_HOST, MCP_SERVER_PORT
Config(file_key, env_key, host, port) ==
    [file_key |-> file_key, env_key |-> env_key, host |-> host, port |-> port]

\* Config.load_api_key
load_api_key(cfg) ==
    IF cfg.file_key # "" THEN cfg.file_key
    ELSE IF cfg.env_key # "" THEN cfg.env_key
    ELSE ""

\* Config.validate
validate(cfg) ==
    IF load_api_key(cfg) = "" THEN FALSE
    ELSE IF cfg.host = "" THEN FALSE
    ELSE IF cfg.port = 0 THEN FALSE
    ELSE TRUE

\* anthropic.Anthropic(api_key=...)
Anthropic(api_key) == [t |-> "client", api_key |-> api_key]

\* startup_event with a client made whatever the configuration
startup_event_unchecked(cfg, constructor) == Anthropic(load_api_key(cfg))

\* startup_event: the value of claude_client after it; constructor is how
\* anthropic.Anthropic ends, "ok" or the exception it raises
startup_event(cfg, constructor) ==
    IF ~validate(cfg) THEN None
    ELSE IF constructor # "ok" THEN None
    ELSE Anthropic(load_api_key(cfg))

\* the response of an endpoint: HTTPException(status_code, detail), or the
\* body returned with status 200
HTTPException(status_code, detail) == [status |-> status_code, detail |-> detail]
Ok200(body) == [status |-> 200, body |-> body]

\* what a Claude endpoint did: its response and the calls it made upstream
Answered(http, effects) == [http |-> http, effects |-> effects]

\* claude_client.messages.create(...): answer is how the call ends, "ok", or
\* the exception raised by the call or by response.content[0].text
messages_create(content, answer) == Effect("create", [content |-> content, answer |-> answer])

\* the try of an endpoint around the upstream call
try_create(content, answer, body, failed) ==
    Answered(IF answer = "ok" THEN Ok200(body)
             ELSE HTTPException(500, Text(failed, <<answer>>)),
             <<messages_create(content, answer)>>)

\* POST /claude/message
send_message_to_claude(client, message, answer) ==
    IF client = None
    THEN Answered(HTTPException(500, Text("client_not_initialized", <<>>)), <<>>)
    ELSE try_create(message, answer,
                    [response |-> "text", tools_used |-> <<>>], "claude_call_failed")

\* the descriptors in the order of the names asked for
available_tools_as_asked(server_tools, names) ==
    IF names.t = "list" /\ names.v # <<>>
    THEN [i \in 1..Len(names.v) |->
            IF \E j \in 1..Len(server_tools) : server_tools[j].name = names.v[i]
            THEN server_tools[CHOOSE j \in 1..Len(server_tools) :
                                  server_tools[j].name = names.v[i]]
            ELSE Descriptor(names.v[i], {}, <<>>)]
    ELSE server_tools

\* available_tools of send_message_with_tools; names is request.tools, a
\* list of str or None
available_tools(server_tools, names) ==
    IF names.t = "list" /\ names.v # <<>>
    THEN SelectSeq(server_tools,
                   LAMBDA tool : \E i \in 1..Len(names.v) : names.v[i] = tool.name)
    ELSE server_tools

\* [tool["name"] for tool in available_tools]
tool_names(descriptors) == [i \in 1..Len(descriptors) |-> descriptors[i].name]

\* the rest of send_message_with_tools, once available_tools is made
with_tools(message, available, answer) ==
    try_create(Text("enhanced_message", <<message, tool_names(available)>>), answer,
               [response |-> "text", available_tools |-> tool_names(available),
                message |-> "use_tools_call"],
               "claude_tools_failed")

\* POST /claude/message-with-tools
send_message_with_tools(client, message, names, server_tools, answer) ==
    IF client = None
    THEN Answered(HTTPException(500, Text("client_not_initialized", <<>>)), <<>>)
    ELSE with_tools(message, available_tools(server_tools, names), answer)

(***************************************************************************)
(* The stdio server's MCPServer (src/mcp_server.py).                       *)
(***************************************************************************)
\* the list with a tool the HTTP server does not have
StdioServer_tools_extra ==
    << Descriptor("hello_world", {"name"}, <<"name">>),
       Descriptor("get_current_time", {}, <<>>),
       Descriptor("echo", {"text"}, <<"text">>) >>

\* MCPServer.__init__: self.tools
StdioServer_tools ==
    << Descriptor("hello_world", {"name"}, <<"name">>),
       Descriptor("get_current_time", {}, <<>>) >>

JsonRpcResult(request_id, result) ==
    [jsonrpc |-> "2.0", id |-> request_id, result |-> result]
JsonRpcError(request_id, code, message) ==
    [jsonrpc |-> "2.0", id |-> request_id,
     error |-> [code |-> code, message |-> message]]

\* the if/elif chain of handle_call_tool
handle_call_tool_branch(tool_name) ==
    IF tool_name = "hello_world" THEN "hello_world"
    ELSE IF tool_name = "get_current_time" THEN "get_current_time"
    ELSE "else"

handle_list_tools(request_id, server_tools) ==
    JsonRpcResult(request_id, [tools |-> server_tools])

handle_call_tool(request_id, tool_name, arguments) ==
    LET branch == handle_call_tool_branch(tool_name)
    IN  CASE branch = "hello_world" ->
                JsonRpcResult(request_id,
                    [content |-> <<[type |-> "text",
                                    text |-> Text("stdio_hello",
                                        <<Get(arguments, "name", PyStr("world"))>>)]>>])
          [] branch = "get_current_time" ->
                JsonRpcResult(request_id,
                    [content |-> <<[type |-> "text",
                                    text |-> Text("current_time", <<"now">>)]>>])
          [] OTHER ->
                JsonRpcError(request_id, -32601, Text("unknown_tool", <<tool_name>>))

handle_initialize(request_id) ==
    JsonRpcResult(request_id,
        [protocolVersion |-> "2024-11-05",
         capabilities |-> [tools |-> <<>>],
         serverInfo |-> [name |-> "claude-desktop-mcp-server", version |-> "1.0.0"]])

\* handle_stdio: the response to a parsed request
stdio_dispatch(method, tool_name, arguments, request_id, server_tools) ==
    IF method = "initialize" THEN handle_initialize(request_id)
    ELSE IF method = "tools/list" THEN handle_list_tools(request_id, server_tools)
    ELSE IF method = "tools/call" THEN handle_call_tool(request_id, tool_name, arguments)
    ELSE JsonRpcError(request_id, -32601, Text("unsupported_method", <<method>>))

(***************************************************************************)
(* handle_stdio: the read loop of the stdio server.  A line of standard    *)
(* input is blank, or text that is not JSON, or JSON that json.loads gives *)
(* up on, or a JSON value.                                                 *)
(***************************************************************************)
BlankLine == [k |-> "blank"]
TextLine == [k |-> "text"]
OversizeLine == [k |-> "oversize"]
JsonLine(value) == [k |-> "json", v |-> value]

\* the values json.loads makes: a list, a dict of arguments, the params dict
\* and the request dict, whose missing members are Absent
JsonList(items) == [t |-> "list", v |-> items]
JsonDict(members) == [t |-> "dict", v |-> members]
JsonParams(name, arguments) == [t |-> "dict", name |-> name, arguments |-> arguments]
JsonRequest(method, params, id) ==
    [t |-> "dict", method |-> method, params |-> params, id |-> id]

\* the str that is one lone surrogate, which UTF-8 does not encode
LoneSurrogate == "\\ud800"

\* json.loads(line): JSONDecodeError for text that is not JSON, RecursionError
\* (or ValueError) for JSON nested too deep (or with too long a numeral)
json_loads(text) ==
    IF text.k = "text" THEN Raise("JSONDecodeError")
    ELSE IF text.k = "oversize" THEN Raise("RecursionError")
    ELSE Return(text.v)

\* f"{x}": the str a method or a tool name is printed as; only a str is
\* printed as itself, so only a str is equal to a str
Format(x) ==
    CASE x.t = "str" -> x.v
      [] x.t = "none" -> "None"
      [] x.t = "int" /\ x.v = 5 -> "5"
      [] x.t = "list" /\ x.v = <<>> -> "[]"

\* request.get("params", {}), params.get("name"), params.get("arguments", {})
params_of(request) ==
    IF request.params = Absent THEN JsonParams(Absent, Absent) ELSE request.params
name_of(params) == IF params.name = Absent THEN None ELSE params.name
arguments_of(params) ==
    IF params.arguments = Absent THEN JsonDict(NoArguments) ELSE params.arguments
\* request.get("method"), request.get("id")
method_of(request) == IF request.method = Absent THEN None ELSE request.method
id_of(request) == IF request.id = Absent THEN None ELSE request.id

\* handle_call_tool with arguments that are no dict taken for an empty dict
call_tool_line_lenient(request_id, tool_name, arguments) ==
    Return(handle_call_tool(request_id, Format(tool_name),
               IF arguments.t = "dict" THEN arguments.v ELSE NoArguments))

\* server.handle_call_tool(request_id, tool_name, arguments): arguments.get
\* of the hello_world branch raises AttributeError unless arguments is a dict
call_tool_line(request_id, tool_name, arguments) ==
    IF handle_call_tool_branch(Format(tool_name)) = "hello_world" /\ arguments.t # "dict"
    THEN Raise("AttributeError")
    ELSE Return(handle_call_tool(request_id, Format(tool_name),
                    IF arguments.t = "dict" THEN arguments.v ELSE NoArguments))

\* tool_name = params.get("name"); arguments = params.get("arguments", {})
call_tool_params(request_id, params) ==
    IF params.t # "dict" THEN Raise("AttributeError")
    ELSE call_tool_line(request_id, name_of(params), arguments_of(params))

\* the request taken apart and dispatched: request.get raises AttributeError
\* unless the value is a dict, params.get unless params is one
handle_request(request, server_tools) ==
    IF request.t # "dict" THEN Raise("AttributeError")
    ELSE IF Format(method_of(request)) = "tools/call"
    THEN call_tool_params(id_of(request), params_of(request))
    ELSE Return(stdio_dispatch(Format(method_of(request)), "", NoArguments,
                               id_of(request), server_tools))

\* the strs of the request that a response repeats
Echoed(response) ==
    (IF response.id.t = "str" THEN {response.id.v} ELSE {})
    \cup (IF "error" \in DOMAIN response
          THEN {response.error.message.args[i] :
                    i \in 1..Len(response.error.message.args)}
          ELSE IF "content" \in DOMAIN response.result
          THEN {response.result.content[1].text.args[i].v :
                    i \in {j \in 1..Len(response.result.content[1].text.args) :
                              /\ response.result.content[1].text.fmt = "stdio_hello"
                              /\ response.result.content[1].text.args[j].t = "str"}}
          ELSE {})

\* print(json.dumps(response, ensure_ascii=False)): nothing is written and
\* UnicodeEncodeError is raised when the text has a lone surrogate
print_response(response) ==
    IF LoneSurrogate \in Echoed(response) THEN Raise("UnicodeEncodeError")
    ELSE Return(response)

print_handled(handled) ==
    IF handled.raised THEN handled ELSE print_response(handled.value)

\* the inner try: json.loads, the dispatch, the print
inner_try(loaded, server_tools) ==
    IF loaded.raised THEN loaded
    ELSE print_handled(handle_request(loaded.value, server_tools))

\* what an iteration of the loop leaves: the lines it printed, and whether an
\* exception left the loop
Iteration(printed, escaped) == [printed |-> printed, escaped |-> escaped]

\* the excepts with only except json.JSONDecodeError
iteration_excepts_narrow(out) ==
    IF ~out.raised THEN Iteration(<<out.value>>, FALSE)
    ELSE IF out.exc = "JSONDecodeError"
    THEN Iteration(<<JsonRpcError(None, -32700, Text("parse_error", <<out.exc>>))>>,
                   FALSE)
    ELSE Iteration(<<>>, TRUE)

\* except json.JSONDecodeError and except Exception: each prints an error
\* with id None (json.dumps with ensure_ascii, which always prints)
iteration_excepts(out) ==
    IF ~out.raised THEN Iteration(<<out.value>>, FALSE)
    ELSE IF out.exc = "JSONDecodeError"
    THEN Iteration(<<JsonRpcError(None, -32700, Text("parse_error", <<out.exc>>))>>,
                   FALSE)
    ELSE Iteration(<<JsonRpcError(None, -32603, Text("internal_error", <<out.exc>>))>>,
                   FALSE)

\* a blank line answered as text that is not JSON
handle_line_no_skip(text, server_tools) ==
    iteration_excepts(inner_try(
        json_loads(IF text.k = "blank" THEN TextLine ELSE text), server_tools))

\* the body of the loop after readline gave a line: a line that is blank
\* after strip() is passed over, any other is answered
handle_line(text, server_tools) ==
    IF text.k = "blank" THEN Iteration(<<>>, FALSE)
    ELSE iteration_excepts(inner_try(json_loads(text), server_tools))

(***************************************************************************)
(* The state: the two servers' descriptor lists, the host, and the request *)
(* in hand with what became of it.                                         *)
(***************************************************************************)
VARIABLES
    tools,        \* mcp_server.tools of the HTTP server
    stdio_tools,  \* server.tools of the stdio server
    system,       \* platform.system() of the host
    procTable,    \* the host's processes, in the order psutil enumerates them
    request,      \* the request being handled, NoRequest when idle
    response,     \* the HTTP response to it, None until it is made
    stdout,       \* the lines the stdio server printed for it
    executed,     \* what execute_tool did for it, None until it ran
    expr_tree,    \* the arithmetic expression the caller wrote, as a tree
    stdin,        \* the lines of standard input not yet read
    line,         \* handle_stdio: the line read and not yet handled, or None
    pc,           \* handle_stdio: "read", "handle", "eof", "interrupted", "crashed"
    seen,         \* the lines handle_stdio has read, in order
    config,       \* config: the key file, the environment, host and port
    claude_client \* the global claude_client, None until startup_event sets it

vars == <<tools, stdio_tools, system, procTable, request, response, stdout,
          executed, expr_tree, stdin, line, pc, seen, config, claude_client>>

\* the variables of the read loop of handle_stdio
loop == <<stdin, line, pc, seen>>

\* handle_stdio at its first readline, with nothing on standard input
LoopIdle ==
    /\ stdin = <<>>
    /\ line = None
    /\ pc = "read"
    /\ seen = <<>>

\* the variables of the Claude endpoints
claude == <<config, claude_client>>

\* the server with no API key at hand and no Claude client
ClaudeUnset ==
    /\ config = Config("", "", "localhost", 8005)
    /\ claude_client = None

NoRequest == [via |-> "none"]

\* POST /tools/call with a ToolCallRequest body
HttpCall(tool_name, arguments) ==
    [via |-> "http", route |-> "/tools/call", tool_name |-> tool_name,
     arguments |-> arguments]
\* GET /tools
HttpList == [via |-> "http", route |-> "/tools"]
\* POST /claude/message and /claude/message-with-tools with a
\* ClaudeMessageRequest body
HttpClaude(route, message, names) ==
    [via |-> "http", route |-> route, message |-> message, names |-> names]
\* the startup event of the application, before any request is served
StartupEvent(constructor) == [via |-> "startup", constructor |-> constructor]
\* a line of standard input that holds a JSON-RPC request
StdioLine(method, tool_name, arguments, id) ==
    [via |-> "stdio", method |-> method, tool_name |-> tool_name,
     arguments |-> arguments, id |-> id]

\* ---- the inputs the model draws ----
\* an argument mapping with the keys of the record given
Args(given) == [k \in ArgKeys |-> IF k \in DOMAIN given THEN given[k] ELSE Absent]

ToolNames ==
    {"hello_world", "get_current_time", "calculate", "system_info", "process_list",
     "process_control", "service_management", "no_such_tool", "HELLO_WORLD"}

SampleExpressions ==
    { PyChars(<<"2", "+", "3", "*", "4">>),
      PyChars(<<"(", "2", "+", "3", ")", "*", "4">>),
      PyChars(<<"1", "/", "0">>),
      PyChars(<<"o", "s">>),
      PyChars(<<>>),
      PyInt(5), None }

ArgMaps ==
    {NoArguments}
    \cup {Args([name |-> n]) : n \in {PyStr("Kim"), PyInt(5)}}
    \cup {Args([expression |-> e]) : e \in SampleExpressions}
    \cup {Args([info_type |-> PyStr(i)]) : i \in {"basic", "detailed", "all", "bogus"}}
    \cup {Args([max_processes |-> m]) : m \in {PyInt(1), PyInt(100), PyStr("many")}}
    \cup {Args([sort_by |-> PyStr(b)]) : b \in {"cpu", "memory", "name", "bogus"}}
    \cup {Args([action |-> PyStr(a)]) : a \in {"start", "stop", "restart", "kill", "status"}}
    \cup {Args([action |-> PyStr(a), process_name |-> PyStr("nginx")]) :
             a \in {"start", "stop", "restart", "kill", "bogus"}}
    \cup {Args([action |-> PyStr(a), process_id |-> i]) :
             a \in {"start", "stop", "restart", "kill", "bogus"},
             i \in {PyInt(0), PyInt(1), PyInt(9), PyStr("one")}}
    \cup {Args([action |-> PyStr(a), process_name |-> PyStr("nginx"), process_id |-> i]) :
             a \in {"start", "stop", "restart", "kill"},
             i \in {PyInt(0), PyInt(1), PyInt(9)}}
    \cup {Args([action |-> PyStr(a), service_name |-> n]) :
             a \in {"status", "start", "stop", "restart", "bogus"},
             n \in {PyStr("nginx"), PyStr(""), PyInt(5)}}
    \cup {Args([service_name |-> PyStr("nginx")])}

Systems == {"Linux", "Darwin", "Windows", "FreeBSD"}

\* what the host answers within one call
Envs ==
    [psutil : {"ok", "AccessDenied", "NoSuchProcess"},
     query : {"ok", "OSError"},
     cmd1 : {"rc0", "rc1", "TimeoutExpired", "FileNotFoundError"},
     cmd2 : {"rc0", "rc1", "TimeoutExpired"}]

CalmEnv == [psutil |-> "ok", query |-> "ok", cmd1 |-> "rc0", cmd2 |-> "rc0"]

Proc(pid, name, cpu_percent, memory_percent, status) ==
    [pid |-> PyInt(pid), name |-> name, cpu_percent |-> cpu_percent,
     memory_percent |-> memory_percent, status |-> status]

\* processes a host may run; a field the host does not disclose is None
ProcPool ==
    { Proc(1, PyChars(<<"b">>), PyFloat(20), PyFloat(10), PyStr("running")),
      Proc(2, PyChars(<<"A">>), None, PyFloat(20), PyStr("sleeping")),
      Proc(3, PyChars(<<"a">>), PyFloat(20), None, None),
      Proc(4, None, PyFloat(0), PyFloat(10), PyStr("running")),
      Proc(5, PyChars(<<"B", "a">>), PyFloat(10), PyFloat(0), PyStr("zombie")) }

\* the process tables of at most n processes
ProcTables(n) ==
    UNION { {t \in [1..k -> ProcPool] : \A i, j \in 1..k : i # j => t[i] # t[j]} :
            k \in 0..n }

HostTable ==
    << Proc(1, PyChars(<<"b">>), PyFloat(20), PyFloat(10), PyStr("running")),
       Proc(2, PyChars(<<"A">>), None, PyFloat(20), PyStr("sleeping")) >>

HttpRequests ==
    {HttpList} \cup {HttpCall(n, a) : n \in ToolNames, a \in ArgMaps}

StdioRequests ==
    {StdioLine(m, n, a, i) :
        m \in {"initialize", "tools/list", "tools/call", "ping"},
        n \in ToolNames,
        a \in {NoArguments, Args([name |-> PyStr("Kim")])},
        i \in {PyInt(1), None}}

(***************************************************************************)
(* The operations.                                                         *)
(***************************************************************************)
Idle ==
    /\ request = NoRequest
    /\ response = None
    /\ stdout = <<>>
    /\ executed = None

\* a request arrives
Receive(req) ==
    /\ Idle
    /\ request' = req
    /\ UNCHANGED <<tools, stdio_tools, system, procTable, response, stdout,
                   executed, expr_tree>>
    /\ UNCHANGED claude
    /\ UNCHANGED loop

\* GET /tools that takes the first descriptor out of the list it answers with
ListTools_consuming ==
    /\ request.via = "http"
    /\ request.route = "/tools"
    /\ response = None
    /\ response' = [tools |-> tools, count |-> Len(tools)]
    /\ tools' = IF tools = <<>> THEN tools ELSE Tail(tools)
    /\ UNCHANGED <<stdio_tools, system, procTable, request, stdout, executed,
                   expr_tree>>
    /\ UNCHANGED claude
    /\ UNCHANGED loop

\* GET /tools: list_tools
ListTools ==
    /\ request.via = "http"
    /\ request.route = "/tools"
    /\ response = None
    /\ response' = [tools |-> tools, count |-> Len(tools)]
    /\ UNCHANGED <<tools, stdio_tools, system, procTable, request, stdout,
                   executed, expr_tree>>
    /\ UNCHANGED claude
    /\ UNCHANGED loop

\* the host after the effects of a call: a killed process is gone
AfterEffects(table, effects) ==
    LET killed == {effects[i].arg : i \in {j \in 1..Len(effects) : effects[j].op = "kill"}}
    IN  SelectSeq(table, LAMBDA p : p.pid.v \notin killed)

\* POST /tools/call: call_tool, with execute_tool and the handler it runs
CallTool(env) ==
    /\ request.via = "http"
    /\ request.route = "/tools/call"
    /\ response = None
    /\ executed' = execute_tool(request.tool_name, request.arguments, system,
                                procTable, env)
    /\ response' = call_tool_response(executed')
    /\ procTable' = AfterEffects(procTable, executed'.effects)
    /\ UNCHANGED <<tools, stdio_tools, system, request, stdout, expr_tree>>
    /\ UNCHANGED claude
    /\ UNCHANGED loop

\* handle_stdio: one request line read, answered with one line
StdioRequest ==
    /\ request.via = "stdio"
    /\ stdout = <<>>
    /\ stdout' = <<stdio_dispatch(request.method, request.tool_name,
                                  request.arguments, request.id, stdio_tools)>>
    /\ UNCHANGED <<tools, stdio_tools, system, procTable, request, response,
                   executed, expr_tree>>
    /\ UNCHANGED claude
    /\ UNCHANGED loop

\* the answer is with the caller; the server waits for the next request
Deliver ==
    /\ request # NoRequest
    /\ response # None \/ stdout # <<>>
    /\ request' = NoRequest
    /\ response' = None
    /\ stdout' = <<>>
    /\ executed' = None
    /\ UNCHANGED <<tools, stdio_tools, system, procTable, expr_tree>>
    /\ UNCHANGED claude
    /\ UNCHANGED loop

\* handle_stdio: readline gives the next line of standard input
ReadLine ==
    /\ pc = "read"
    /\ stdin # <<>>
    /\ line' = Head(stdin)
    /\ stdin' = Tail(stdin)
    /\ seen' = Append(seen, Head(stdin))
    /\ pc' = "handle"
    /\ UNCHANGED <<tools, stdio_tools, system, procTable, request, response, stdout,
                   executed, expr_tree>>
    /\ UNCHANGED claude

\* handle_stdio: readline gives "" at the end of input, and the loop is left
ReadEof ==
    /\ pc = "read"
    /\ stdin = <<>>
    /\ pc' = "eof"
    /\ UNCHANGED <<tools, stdio_tools, system, procTable, request, response, stdout,
                   executed, expr_tree, stdin, line, seen>>
    /\ UNCHANGED claude

\* the end of an iteration: back to readline, unless an exception left the
\* loop (and asyncio.run, to the except of __main__)
Iterated(iteration) ==
    /\ stdout' = stdout \o iteration.printed
    /\ pc' = IF iteration.escaped THEN "crashed" ELSE "read"

\* handle_stdio: the line read is handled
HandleLine ==
    /\ pc = "handle"
    /\ Iterated(handle_line(line, stdio_tools))
    /\ line' = None
    /\ UNCHANGED <<tools, stdio_tools, system, procTable, request, response,
                   executed, expr_tree, stdin, seen>>
    /\ UNCHANGED claude

\* handle_stdio: KeyboardInterrupt, at readline or while a line is handled
Interrupt ==
    /\ pc \in {"read", "handle"}
    /\ pc' = "interrupted"
    /\ UNCHANGED <<tools, stdio_tools, system, procTable, request, response, stdout,
                   executed, expr_tree, stdin, line, seen>>
    /\ UNCHANGED claude

\* startup_event
Startup ==
    /\ request.via = "startup"
    /\ claude_client' = startup_event(config, request.constructor)
    /\ request' = NoRequest
    /\ UNCHANGED <<tools, stdio_tools, system, procTable, response, stdout,
                   executed, expr_tree, config>>
    /\ UNCHANGED loop

\* the response of a Claude endpoint made, its upstream calls recorded
ClaudeAnswered(answered) ==
    /\ response' = answered.http
    /\ executed' = Did(Return(answered.http.status), answered.effects)

\* POST /claude/message
ClaudeMessage(answer) ==
    /\ request.via = "http"
    /\ request.route = "/claude/message"
    /\ response = None
    /\ ClaudeAnswered(send_message_to_claude(claude_client, request.message, answer))
    /\ UNCHANGED <<tools, stdio_tools, system, procTable, request, stdout, expr_tree>>
    /\ UNCHANGED loop
    /\ UNCHANGED claude

\* POST /claude/message-with-tools
ClaudeMessageWithTools(answer) ==
    /\ request.via = "http"
    /\ request.route = "/claude/message-with-tools"
    /\ response = None
    /\ ClaudeAnswered(send_message_with_tools(claude_client, request.message,
                                              request.names, tools, answer))
    /\ UNCHANGED <<tools, stdio_tools, system, procTable, request, stdout, expr_tree>>
    /\ UNCHANGED loop
    /\ UNCHANGED claude

(***************************************************************************)
(* Spec: both servers, every tool, with the host's answers drawn freely.   *)
(***************************************************************************)
Init ==
    /\ tools = MCPServer_tools
    /\ stdio_tools = StdioServer_tools
    /\ system \in Systems
    /\ procTable = HostTable
    /\ request = NoRequest
    /\ response = None
    /\ stdout = <<>>
    /\ executed = None
    /\ LoopIdle
    /\ ClaudeUnset
    /\ expr_tree = None

Next ==
    \/ \E req \in HttpRequests \cup StdioRequests : Receive(req)
    \/ ListTools
    \/ \E env \in Envs : CallTool(env)
    \/ StdioRequest
    \/ Deliver

Spec == Init /\ [][Next]_vars

(***************************************************************************)
(* SpecCalc: the calculate tool on every text of at most MaxLen characters *)
(* of CalcAlphabet.                                                        *)
(***************************************************************************)
CalcAlphabet == {"0", "1", "2", "+", "-", "*", "/", "(", ")", ".", " ", "a"}

Texts(alphabet, n) == UNION {[1..k -> alphabet] : k \in 0..n}

InitCalc ==
    /\ tools = MCPServer_tools
    /\ stdio_tools = StdioServer_tools
    /\ system = "Linux"
    /\ procTable = HostTable
    /\ request \in {HttpCall("calculate", Args([expression |-> PyChars(cs)])) :
                        cs \in Texts(CalcAlphabet, MaxLen)}
    /\ response = None
    /\ stdout = <<>>
    /\ executed = None
    /\ LoopIdle
    /\ ClaudeUnset
    /\ expr_tree = None

NextCalc == CallTool(CalmEnv)

SpecCalc == InitCalc /\ [][NextCalc]_vars

(***************************************************************************)
(* SpecArith: the calculate tool on the arithmetic expressions of at most  *)
(* MaxOps binary operators over Literals, each written out from its tree   *)
(* with parentheses exactly where the usual reading needs them.            *)
(***************************************************************************)
Literals == {<<"0">>, <<"2">>, <<"1", "0">>, <<"0", "2">>}
BinaryOperators == {"+", "-", "*", "/"}

Leaf(digits) == [lit |-> digits]
Node(o, l, r) == [o |-> o, l |-> l, r |-> r]
IsLeaf(tree) == DOMAIN tree = {"lit"}

\* the shapes of the trees with exactly n operators: <<>> is a leaf and
\* <<l, r>> an operator with its two operands
RECURSIVE ShapesWith(_)
ShapesWith(n) ==
    IF n = 0 THEN {<<>>}
    ELSE UNION { {<<l, r>> : l \in ShapesWith(k), r \in ShapesWith(n - 1 - k)} :
                 k \in 0..(n - 1) }

RECURSIVE LeavesOf(_)
LeavesOf(shape) == IF shape = <<>> THEN 1 ELSE LeavesOf(shape[1]) + LeavesOf(shape[2])

\* the tree of a shape with its operators and its literals, read left to right
RECURSIVE Labelled(_, _, _)
Labelled(shape, ops, lits) ==
    IF shape = <<>> THEN Leaf(lits[1])
    ELSE LET nl == LeavesOf(shape[1])
         IN  Node(ops[nl],
                  Labelled(shape[1], SubSeq(ops, 1, nl - 1), SubSeq(lits, 1, nl)),
                  Labelled(shape[2], SubSeq(ops, nl + 1, Len(ops)),
                           SubSeq(lits, nl + 1, Len(lits))))

\* * and / bind tighter than + and -
Precedence(o) == IF o \in {"*", "/"} THEN 2 ELSE 1

\* the text of a tree: a left operand is parenthesised when its operator binds
\* less tightly, a right operand when its operator does not bind more tightly
RECURSIVE Render(_)
Render(tree) ==
    IF IsLeaf(tree) THEN tree.lit
    ELSE LET l == Render(tree.l)
             r == Render(tree.r)
             lp == ~IsLeaf(tree.l) /\ Precedence(tree.l.o) < Precedence(tree.o)
             rp == ~IsLeaf(tree.r) /\ Precedence(tree.r.o) <= Precedence(tree.o)
         IN  (IF lp THEN <<"(">> \o l \o <<")">> ELSE l)
             \o <<tree.o>>
             \o (IF rp THEN <<"(">> \o r \o <<")">> ELSE r)

InitArith ==
    /\ tools = MCPServer_tools
    /\ stdio_tools = StdioServer_tools
    /\ system = "Linux"
    /\ procTable = HostTable
    /\ \E n \in 0..MaxOps :
          \E shape \in ShapesWith(n), ops \in [1..n -> BinaryOperators],
             lits \in [1..(n + 1) -> Literals] :
              expr_tree = Labelled(shape, ops, lits)
    /\ request = HttpCall("calculate", Args([expression |-> PyChars(Render(expr_tree))]))
    /\ response = None
    /\ stdout = <<>>
    /\ executed = None
    /\ LoopIdle
    /\ ClaudeUnset

NextArith == CallTool(CalmEnv)

SpecArith == InitArith /\ [][NextArith]_vars

(***************************************************************************)
(* SpecProc: the process_list tool on every process table of at most       *)
(* MaxProcs processes of ProcPool.                                         *)
(***************************************************************************)
ProcListRequests ==
    {HttpCall("process_list", Args([max_processes |-> PyInt(m), sort_by |-> PyStr(b)])) :
        m \in (1..(MaxProcs + 1)) \cup {100}, b \in {"cpu", "memory", "name"}}
    \cup {HttpCall("process_list", NoArguments)}

InitProc ==
    /\ tools = MCPServer_tools
    /\ stdio_tools = StdioServer_tools
    /\ system = "Linux"
    /\ procTable \in ProcTables(MaxProcs)
    /\ request \in ProcListRequests
    /\ response = None
    /\ stdout = <<>>
    /\ executed = None
    /\ LoopIdle
    /\ ClaudeUnset
    /\ expr_tree = None

NextProc == \E env \in {CalmEnv, [CalmEnv EXCEPT !.query = "OSError"]} : CallTool(env)

SpecProc == InitProc /\ [][NextProc]_vars

(***************************************************************************)
(* SpecStdio: the read loop of the stdio server on every standard input of *)
(* at most MaxLines lines of StdioLines.                                   *)
(***************************************************************************)
HelloParams(arguments) == JsonParams(PyStr("hello_world"), arguments)

StdioLines ==
    { BlankLine, TextLine, OversizeLine,
      JsonLine(JsonList(<<PyInt(1), PyInt(2)>>)),
      JsonLine(JsonRequest(PyStr("initialize"), Absent, PyInt(1))),
      JsonLine(JsonRequest(PyStr("initialize"), None, PyStr(LoneSurrogate))),
      JsonLine(JsonRequest(PyStr("tools/list"), None, Absent)),
      JsonLine(JsonRequest(PyStr("tools/call"),
                           HelloParams(JsonDict(Args([name |-> PyStr("Kim")]))),
                           PyInt(2))),
      JsonLine(JsonRequest(PyStr("tools/call"),
                           HelloParams(JsonDict(Args([name |-> PyStr(LoneSurrogate)]))),
                           PyInt(3))),
      JsonLine(JsonRequest(PyStr("tools/call"), HelloParams(Absent), PyStr("a"))),
      JsonLine(JsonRequest(PyStr("tools/call"), HelloParams(PyStr("x")), PyInt(7))),
      JsonLine(JsonRequest(PyStr("tools/call"),
                           JsonParams(PyStr("get_current_time"), PyStr("x")), PyInt(8))),
      JsonLine(JsonRequest(PyStr("tools/call"),
                           JsonParams(PyStr("calculate"), JsonDict(NoArguments)),
                           PyInt(4))),
      JsonLine(JsonRequest(PyStr("tools/call"), Absent, PyInt(6))),
      JsonLine(JsonRequest(PyStr("tools/call"), JsonList(<<>>), PyInt(9))),
      JsonLine(JsonRequest(PyStr("ping"), Absent, PyInt(5))),
      JsonLine(JsonRequest(Absent, Absent, PyInt(5))) }

InitStdio ==
    /\ tools = MCPServer_tools
    /\ stdio_tools = StdioServer_tools
    /\ system = "Linux"
    /\ procTable = HostTable
    /\ request = NoRequest
    /\ response = None
    /\ stdout = <<>>
    /\ executed = None
    /\ expr_tree = None
    /\ stdin \in UNION {[1..n -> StdioLines] : n \in 0..MaxLines}
    /\ line = None
    /\ pc = "read"
    /\ seen = <<>>
    /\ ClaudeUnset

NextStdio ==
    \/ ReadLine
    \/ ReadEof
    \/ HandleLine
    \/ Interrupt

SpecStdio == InitStdio /\ [][NextStdio]_vars

(***************************************************************************)
(* SpecClaude: the HTTP server from its startup event on, with every       *)
(* configuration of Configs, the Claude endpoints and the tool endpoints.  *)
(***************************************************************************)
Configs ==
    {Config(f, e, h, p) : f \in {"", "sk-file"}, e \in {"", "sk-env"},
                          h \in {"localhost", ""}, p \in {8005, 0}}

\* how anthropic.Anthropic and messages.create end
ConstructorAnswers == {"ok", "TypeError"}
UpstreamAnswers == {"ok", "APIConnectionError", "IndexError"}

\* the lists of at most n names a request asks for
NameLists(n) ==
    UNION {[1..k -> {"calculate", "hello_world", "no_such_tool"}] : k \in 0..n}

ClaudeRequests ==
    {HttpClaude("/claude/message", "hi", None)}
    \cup {HttpClaude("/claude/message-with-tools", "hi", None)}
    \cup {HttpClaude("/claude/message-with-tools", "hi", PyList(names)) :
             names \in NameLists(MaxNames)}

ToolRequests ==
    {HttpList, HttpCall("hello_world", NoArguments),
     HttpCall("no_such_tool", NoArguments)}

InitClaude ==
    /\ tools = MCPServer_tools
    /\ stdio_tools = StdioServer_tools
    /\ system = "Linux"
    /\ procTable = HostTable
    /\ request \in {StartupEvent(c) : c \in ConstructorAnswers}
    /\ response = None
    /\ stdout = <<>>
    /\ executed = None
    /\ expr_tree = None
    /\ LoopIdle
    /\ config \in Configs
    /\ claude_client = None

NextClaude ==
    \/ Startup
    \/ \E req \in ClaudeRequests \cup ToolRequests : Receive(req)
    \/ \E answer \in UpstreamAnswers : ClaudeMessage(answer)
    \/ \E answer \in UpstreamAnswers : ClaudeMessageWithTools(answer)
    \/ ListTools
    \/ CallTool(CalmEnv)
    \/ Deliver

SpecClaude == InitClaude /\ [][NextClaude]_vars

(***************************************************************************)
(* The claims.                                                             *)
(***************************************************************************)
\* a POST /tools/call that has been answered
CallDone ==
    /\ request.via = "http"
    /\ request.route = "/tools/call"
    /\ executed # None

CallDoneOf(tool_name) == CallDone /\ request.tool_name = tool_name

\* the expression argument of the request, when it is a str
ExpressionText == request.arguments["expression"].v
HasExpressionText == request.arguments["expression"].t = "chars"

Evaluated == \E i \in 1..Len(executed.effects) : executed.effects[i].op = "eval"

\* the characters the validator is to let through: 0-9 + - * / . ( ) space
ValidatorSet == Digits \cup {"+", "-", "*", "/", ".", "(", ")", " "}
IsValidated(cs) == \A i \in 1..Len(cs) : cs[i] \in ValidatorSet

\* C1: an expression with a character outside 0-9 + - * / . ( ) space is
\* answered with the forbidden-character error, and eval is not reached.
C1_ForbiddenNeverEvaluated ==
    (CallDoneOf("calculate") /\ HasExpressionText /\ ~IsValidated(ExpressionText))
        => (response.result.fmt = "forbidden_chars" /\ ~Evaluated)

C1_Witness ==
    /\ CallDoneOf("calculate")
    /\ HasExpressionText
    /\ ExpressionText = <<"2", "+", "a">>
    /\ response.result.fmt = "forbidden_chars"

\* ---- C8 ----
IsOperatorChar(c) == c \in {"+", "-", "*", "/"}

\* the position of the first character from i on that is no space
RECURSIVE SkipSpaces(_, _)
SkipSpaces(cs, i) ==
    IF i <= Len(cs) /\ cs[i] = " " THEN SkipSpaces(cs, i + 1) ELSE i

\* the position after the digits and dots from i on
RECURSIVE NumeralEnd(_, _)
NumeralEnd(cs, i) ==
    IF i <= Len(cs) /\ cs[i] \in Digits \cup {"."} THEN NumeralEnd(cs, i + 1) ELSE i

\* cs[i..j-1] is a numeral of value zero: 0, 00, 0., .0, 0.0
IsZeroNumeral(cs, i, j) ==
    /\ \E p \in i..(j - 1) : cs[p] = "0"
    /\ \A p \in i..(j - 1) : cs[p] \in {"0", "."}
    /\ Cardinality({p \in i..(j - 1) : cs[p] = "."}) <= 1

\* a division whose right operand is the numeral zero
DividesByZeroNumeral(cs) ==
    \E i \in 1..Len(cs) :
        /\ cs[i] = "/"
        /\ LET j == SkipSpaces(cs, i + 1)
               k == NumeralEnd(cs, j)
               m == SkipSpaces(cs, k)
           IN  /\ IsZeroNumeral(cs, j, k)
               /\ \/ m > Len(cs)
                  \/ cs[m] \in {"+", "-", "/", ")"}
                  \/ cs[m] = "*" /\ ~(m + 1 <= Len(cs) /\ cs[m + 1] = "*")

\* the number of "(" less the number of ")" in the first n characters
RECURSIVE ParenDepth(_, _)
ParenDepth(cs, n) ==
    IF n = 0 THEN 0
    ELSE ParenDepth(cs, n - 1)
         + (IF cs[n] = "(" THEN 1 ELSE IF cs[n] = ")" THEN -1 ELSE 0)

Unbalanced(cs) ==
    \/ ParenDepth(cs, Len(cs)) # 0
    \/ \E n \in 1..Len(cs) : ParenDepth(cs, n) < 0

IsBlank(cs) == \A i \in 1..Len(cs) : cs[i] = " "

EndsInOperator(cs) ==
    \E i \in 1..Len(cs) :
        /\ IsOperatorChar(cs[i])
        /\ \A j \in (i + 1)..Len(cs) : cs[j] = " "

\* C8: a validated expression that divides by zero, has unbalanced
\* parentheses, is empty or ends in an operator is answered with the
\* evaluation error, and execute_tool returns.
C8_EvaluationErrors ==
    (/\ CallDoneOf("calculate")
     /\ HasExpressionText
     /\ IsValidated(ExpressionText)
     /\ \/ DividesByZeroNumeral(ExpressionText)
        \/ Unbalanced(ExpressionText)
        \/ IsBlank(ExpressionText)
        \/ EndsInOperator(ExpressionText))
        => (/\ ~executed.out.raised
            /\ executed.out.value.fmt = "calc_error"
            /\ response.result.fmt = "calc_error")

C8_Witness ==
    /\ CallDoneOf("calculate")
    /\ HasExpressionText
    /\ ExpressionText = <<"1", "/", "0">>
    /\ response.result = Text("calc_error", <<"ZeroDivisionError">>)

\* ---- C10 ----
\* the row a process is listed with: pid, name, cpu %, memory %, status
RowOf(p) ==
    << p.pid,
       IF p.name = None THEN UnknownName ELSE p.name,
       IF p.cpu_percent = None THEN PyFloat(0) ELSE p.cpu_percent,
       IF p.memory_percent = None THEN PyFloat(0) ELSE p.memory_percent,
       IF p.status = None THEN PyStr("Unknown") ELSE p.status >>

\* the place of a letter in the alphabet, whatever its case
LetterRank(c) ==
    CHOOSE i \in 1..26 : Lowercase[i] = c \/ Uppercase[i] = c

\* a before b in the dictionary, case ignored
RECURSIVE FoldedLess(_, _)
FoldedLess(a, b) ==
    /\ b # <<>>
    /\ \/ a = <<>>
       \/ LetterRank(Head(a)) < LetterRank(Head(b))
       \/ LetterRank(Head(a)) = LetterRank(Head(b)) /\ FoldedLess(Tail(a), Tail(b))

\* row a has to come before row b under the key
RowBefore(key, a, b) ==
    CASE key = "cpu" -> a[3].v > b[3].v
      [] key = "memory" -> a[4].v > b[4].v
      [] key = "name" -> FoldedLess(a[2].v, b[2].v)

ListingDone ==
    /\ CallDoneOf("process_list")
    /\ request.arguments["max_processes"].t = "int"
    /\ request.arguments["max_processes"].v \in 1..100
    /\ request.arguments["sort_by"].t = "str"
    /\ request.arguments["sort_by"].v \in {"cpu", "memory", "name"}
    /\ response.result.fmt = "process_list"

\* C10: with max_count in 1..100 and sort_by cpu, memory or name, the rows
\* of the process listing are the first max_count of the enumerated
\* processes in the order of the key (cpu and memory from high to low with a
\* missing value as 0.0, name from a to z with case ignored): they are rows
\* of distinct processes, in order, no process left out has to come before
\* one shown, there are min(max_count, number of processes) of them, and the
\* summary line counts exactly the rows shown.
C10_ListingIsSortedPrefix ==
    ListingDone =>
        LET rows == response.result.args[1]
            key == request.arguments["sort_by"].v
            max_count == request.arguments["max_processes"].v
            shown == {rows[i] : i \in 1..Len(rows)}
            all == {RowOf(procTable[k]) : k \in 1..Len(procTable)}
        IN  /\ Len(rows) = (IF max_count < Len(procTable) THEN max_count
                            ELSE Len(procTable))
            /\ Len(rows) <= max_count
            /\ shown \subseteq all
            /\ \A i, j \in 1..Len(rows) : i # j => rows[i][1] # rows[j][1]
            /\ \A i, j \in 1..Len(rows) : i < j => ~RowBefore(key, rows[j], rows[i])
            /\ \A r \in all \ shown : \A i \in 1..Len(rows) : ~RowBefore(key, r, rows[i])
            /\ response.result.args[2] = Len(rows)

C10_Witness ==
    /\ ListingDone
    /\ Len(procTable) = 3
    /\ request.arguments["max_processes"].v = 2
    /\ request.arguments["sort_by"].v = "cpu"
    /\ Len(response.result.args[1]) = 2
    /\ response.result.args[1][1] # RowOf(procTable[1])
    /\ response.result.args[1][2] # RowOf(procTable[2])
    /\ response.result.args[2] = 2

\* ---- C7 ----
\* the number a literal denotes, read in base ten
RECURSIVE LiteralValue(_)
LiteralValue(digits) ==
    IF digits = <<>> THEN 0
    ELSE 10 * LiteralValue(SubSeq(digits, 1, Len(digits) - 1))
         + DigitVal(digits[Len(digits)])

\* the value of a tree in the rationals, as a fraction n/d with d > 0;
\* def is FALSE where a division by zero leaves it without a value
RECURSIVE TreeValue(_)
TreeValue(tree) ==
    IF IsLeaf(tree) THEN [def |-> TRUE, n |-> LiteralValue(tree.lit), d |-> 1]
    ELSE LET x == TreeValue(tree.l)
             y == TreeValue(tree.r)
         IN  IF ~x.def \/ ~y.def \/ (tree.o = "/" /\ y.n = 0)
             THEN [def |-> FALSE, n |-> 0, d |-> 1]
             ELSE CASE tree.o = "+" -> [def |-> TRUE, n |-> x.n * y.d + y.n * x.d, d |-> x.d * y.d]
                    [] tree.o = "-" -> [def |-> TRUE, n |-> x.n * y.d - y.n * x.d, d |-> x.d * y.d]
                    [] tree.o = "*" -> [def |-> TRUE, n |-> x.n * y.n, d |-> x.d * y.d]
                    [] tree.o = "/" ->
                        IF y.n > 0 THEN [def |-> TRUE, n |-> x.n * y.d, d |-> x.d * y.n]
                        ELSE [def |-> TRUE, n |-> -(x.n * y.d), d |-> -(x.d * y.n)]

\* the call answered with the result text whose number is n/d
AnswersWith(v) ==
    /\ response.result.fmt = "calc_result"
    /\ response.result.args[2].t \in {"int", "float"}
    /\ response.result.args[2].d # 0
    /\ response.result.args[2].n * v.d = v.n * response.result.args[2].d

\* C7: for an expression built from non-negative integer literals, the
\* operators + - * / and parentheses, calculate answers with the value that
\* the usual precedence (* and / before + and -) and grouping from the left
\* give it, wherever the expression has a value.
C7_StandardArithmetic ==
    (CallDoneOf("calculate") /\ expr_tree # None /\ TreeValue(expr_tree).def)
        => AnswersWith(TreeValue(expr_tree))

\* ---- C2, C3, C4, C9 ----
\* the names of a descriptor list
Names(descriptors) == {descriptors[i].name : i \in 1..Len(descriptors)}

\* C2: a call of a tool name that is not in the descriptor list is answered
\* with success = false, result = "" and a populated error.
C2_UnknownToolEnvelope ==
    (CallDone /\ request.tool_name \notin Names(tools))
        => (/\ response.success = FALSE
            /\ response.result = EmptyText
            /\ response.error # None)

\* C3: whatever the tool name and the arguments, and whatever the host
\* answers, execute_tool returns a value: no exception leaves it.
C3_ExecuteToolReturns ==
    CallDone => (/\ ~executed.out.raised
                 /\ response.success = TRUE
                 /\ response.result = executed.out.value)

\* a handler raised (a calculate expression that is no str) and the except
\* of execute_tool made the fault a text
C3_Witness ==
    /\ CallDoneOf("calculate")
    /\ request.arguments["expression"] = PyInt(5)
    /\ ~executed.out.raised
    /\ executed.out.value = Text("tool_error", <<"TypeError">>)

\* the texts with which a handler or the dispatcher reports a failure
FailureTexts ==
    {"forbidden_chars", "calc_error", "sysinfo_error", "process_list_error",
     "target_missing", "start_needs_name", "process_not_found", "unknown_action",
     "process_control_error", "service_name_missing", "service_status_failed",
     "service_start_failed", "service_stop_failed", "service_restart_failed",
     "unsupported_platform", "service_error", "unknown_tool", "tool_error"}

ReportsFailure == response.result.fmt \in FailureTexts

\* C4: a tool-call response is success = true with a result and no error, or
\* success = false with an error; a failure the handler reports comes back
\* as success = false with a populated error.
C4_TwoShapes ==
    CallDone =>
        /\ \/ response.success = TRUE /\ response.error = None
           \/ response.success = FALSE /\ response.error # None
        /\ ReportsFailure => (response.success = FALSE /\ response.error # None)

\* the required list of the descriptor of a tool
RequiredOf(descriptors, tool_name) ==
    LET i == CHOOSE k \in 1..Len(descriptors) : descriptors[k].name = tool_name
    IN  {descriptors[i].required[k] : k \in 1..Len(descriptors[i].required)}

OmitsRequired ==
    /\ request.tool_name \in Names(tools)
    /\ \E key \in RequiredOf(tools, request.tool_name) : request.arguments[key] = Absent

\* C9: a call that leaves out an argument its descriptor requires is
\* answered with an error, not with a result worked out from a default.
C9_RequiredArgumentsChecked ==
    (CallDone /\ OmitsRequired) => (response.success = FALSE \/ ReportsFailure)

\* ---- C5, C6 ----
StdioCallDone ==
    /\ request.via = "stdio"
    /\ request.method = "tools/call"
    /\ stdout # <<>>

StdioListDone ==
    /\ request.via = "stdio"
    /\ request.method = "tools/list"
    /\ stdout # <<>>

HttpListDone ==
    /\ request.via = "http"
    /\ request.route = "/tools"
    /\ response # None

IsJsonRpcError(message) == "error" \in DOMAIN message

\* C5: in each server the listed names are the names with a branch of
\* their own: a listed name is listed once and goes to the branch of that
\* name, any other name goes to the else branch.
C5_ListedIffHandled ==
    /\ \A i, j \in 1..Len(tools) : tools[i].name = tools[j].name => i = j
    /\ \A i, j \in 1..Len(stdio_tools) :
          stdio_tools[i].name = stdio_tools[j].name => i = j
    /\ \A n \in ToolNames \cup Names(tools) \cup Names(stdio_tools) :
          /\ n \in Names(tools) <=> execute_tool_branch(n) # "else"
          /\ n \in Names(stdio_tools) <=> handle_call_tool_branch(n) # "else"
    /\ CallDone =>
          executed.branch = (IF request.tool_name \in Names(tools)
                             THEN request.tool_name ELSE "else")
    /\ StdioCallDone =>
          (IsJsonRpcError(stdout[1]) <=> request.tool_name \notin Names(stdio_tools))

C5_Witness ==
    /\ CallDoneOf("service_management")
    /\ executed.branch = "service_management"
    /\ "service_management" \in Names(tools)

\* C6 as stated: stdio and HTTP list the same tool names and answer calls
\* of the same tool names.
C6_SameDispatchTable ==
    /\ Names(stdio_tools) = Names(tools)
    /\ \A n \in ToolNames :
          handle_call_tool_branch(n) # "else" <=> execute_tool_branch(n) # "else"
    /\ StdioCallDone =>
          (IsJsonRpcError(stdout[1]) <=> request.tool_name \notin Names(tools))

\* C6 amended: the tool names stdio lists and answers calls of are among
\* those HTTP lists and answers calls of.
C6_StdioWithinHttp ==
    /\ Names(stdio_tools) \subseteq Names(tools)
    /\ \A n \in ToolNames \cup Names(stdio_tools) :
          handle_call_tool_branch(n) # "else" => execute_tool_branch(n) # "else"
    /\ StdioListDone => Names(stdout[1].result.tools) \subseteq Names(tools)
    /\ HttpListDone => Names(stdio_tools) \subseteq Names(response.tools)
    /\ (StdioCallDone /\ ~IsJsonRpcError(stdout[1]))
          => (/\ request.tool_name \in Names(tools)
              /\ execute_tool_branch(request.tool_name) = request.tool_name)

C6_Witness ==
    /\ StdioCallDone
    /\ request.tool_name = "get_current_time"
    /\ ~IsJsonRpcError(stdout[1])
    /\ "get_current_time" \in Names(tools)

\* ---- C11, C12, C13 ----
\* the effects of a call on the host's processes
ProcessEffects(effects) ==
    {i \in 1..Len(effects) : effects[i].op \in {"lookup", "terminate", "kill", "spawn"}}
SignalEffects(effects) ==
    {i \in 1..Len(effects) : effects[i].op \in {"terminate", "kill", "spawn"}}

ActionIs(actions) ==
    /\ request.arguments["action"].t = "str"
    /\ request.arguments["action"].v \in actions

GivesName ==
    /\ request.arguments["process_name"].t = "str"
    /\ request.arguments["process_name"].v # ""

\* C11: a process_control call that gives neither a process name nor a pid
\* is answered with the missing-target error, whatever the action, and it
\* looks up, terminates and kills no process.
C11_NoTargetNoAction ==
    (/\ CallDoneOf("process_control")
     /\ request.arguments["process_name"] = Absent
     /\ request.arguments["process_id"] = Absent)
        => (/\ response.result = Text("target_missing", <<>>)
            /\ ProcessEffects(executed.effects) = {})

C11_Witness ==
    /\ CallDoneOf("process_control")
    /\ request.arguments["process_name"] = Absent
    /\ request.arguments["process_id"] = Absent
    /\ ActionIs({"kill"})
    /\ response.result = Text("target_missing", <<>>)

\* the request in hand is a process_control call not yet answered
ControlPending ==
    /\ request.via = "http"
    /\ request.route = "/tools/call"
    /\ request.tool_name = "process_control"
    /\ response = None

\* the pid of the request is a pid (a positive integer) of no live process
PidIsDead ==
    /\ request.arguments["process_id"].t = "int"
    /\ request.arguments["process_id"].v > 0
    /\ request.arguments["process_id"].v \notin LivePids(procTable)

\* C12: stop or kill with a pid of no live process is answered with the
\* process-not-found message; no process is signalled, the processes of the
\* host are as before, and no exception leaves the call.
C12_DeadPidNotFound ==
    [][(ControlPending /\ ActionIs({"stop", "kill"}) /\ PidIsDead /\ response' # None)
          => (/\ response'.result.fmt = "process_not_found"
              /\ ~executed'.out.raised
              /\ SignalEffects(executed'.effects) = {}
              /\ procTable' = procTable)]_vars

C12_Witness ==
    /\ CallDoneOf("process_control")
    /\ ActionIs({"kill"})
    /\ request.arguments["process_id"] = PyInt(9)
    /\ 9 \notin LivePids(procTable)
    /\ response.result = Text("process_not_found", <<PyInt(9)>>)
    /\ SignalEffects(executed.effects) = {}

AdvisoryTexts ==
    {"start_not_executed", "stop_not_executed", "restart_not_executed",
     "kill_not_executed"}

GivesPid ==
    /\ request.arguments["process_id"].t = "int"
    /\ request.arguments["process_id"].v > 0
NoPid == request.arguments["process_id"] = Absent

\* C13 as stated: start with a name, a pid or both, and stop, restart or
\* kill with a name and no pid, are answered with the advisory message, and
\* nothing is spawned, terminated or killed.
C13_AdvisoryAnyTarget ==
    (/\ CallDoneOf("process_control")
     /\ \/ ActionIs({"start"}) /\ (GivesName \/ GivesPid)
        \/ ActionIs({"stop", "restart", "kill"}) /\ GivesName /\ NoPid)
        => (/\ response.result.fmt \in AdvisoryTexts
            /\ ProcessEffects(executed.effects) = {})

\* C13 amended: start with a name (with or without a pid), and stop, restart
\* or kill with a name and no pid, are answered with the advisory message of
\* the action naming the process; start with a pid and no name is answered
\* with the name-required error; in all of them nothing is looked up,
\* spawned, terminated or killed.
C13_AdvisoryByName ==
    /\ (/\ CallDoneOf("process_control")
        /\ GivesName
        /\ \/ ActionIs({"start"})
           \/ ActionIs({"stop", "restart", "kill"}) /\ NoPid)
          => (/\ response.result.fmt \in AdvisoryTexts
              /\ response.result =
                    Text(CASE ActionIs({"start"}) -> "start_not_executed"
                           [] ActionIs({"stop"}) -> "stop_not_executed"
                           [] ActionIs({"restart"}) -> "restart_not_executed"
                           [] ActionIs({"kill"}) -> "kill_not_executed",
                         <<request.arguments["process_name"]>>)
              /\ ProcessEffects(executed.effects) = {})
    /\ (/\ CallDoneOf("process_control")
        /\ ActionIs({"start"})
        /\ ~GivesName
        /\ request.arguments["process_name"] = Absent
        /\ GivesPid)
          => (/\ response.result = Text("start_needs_name", <<>>)
              /\ ProcessEffects(executed.effects) = {})

C13_Witness ==
    /\ CallDoneOf("process_control")
    /\ ActionIs({"kill"})
    /\ GivesName
    /\ NoPid
    /\ response.result.fmt = "kill_not_executed"
    /\ executed.effects = <<>>

\* ---- C14, C15, C16 ----
\* the commands a call ran against the service manager, in order
RunEffects(effects) == {i \in 1..Len(effects) : effects[i].op = "run"}

ServiceDone == CallDoneOf("service_management")

TimedOut(effects) ==
    \E i \in RunEffects(effects) : effects[i].arg.answer = "TimeoutExpired"

AllTimed(effects) ==
    \A i \in RunEffects(effects) : effects[i].arg.timeout = CommandTimeout

\* the text ends with the captured standard error
CarriesStderr(text) == Len(text.args) = 2 /\ text.args[2] = "stderr"

ServiceFailedTexts ==
    {"service_status_failed", "service_start_failed", "service_stop_failed",
     "service_restart_failed"}

WindowsRestartDone ==
    /\ ServiceDone
    /\ system = "Windows"
    /\ ActionIs({"restart"})
    /\ request.arguments["service_name"].t = "str"
    /\ request.arguments["service_name"].v # ""

IsCommand(effect, verb) == effect.op = "run" /\ effect.arg.cmd[2] = verb

\* C15: a Windows restart runs sc stop first; sc start runs only as the
\* second command and only after a stop that exited zero; when the stop exits
\* non-zero no other command is run and the restart failure is reported.
C15_StopBeforeStart ==
    WindowsRestartDone
        => (/\ executed.effects # <<>>
            /\ IsCommand(executed.effects[1], "stop")
            /\ \A i \in 1..Len(executed.effects) :
                  IsCommand(executed.effects[i], "start")
                      => (i = 2 /\ executed.effects[1].arg.answer = "rc0")
            /\ executed.effects[1].arg.answer = "rc1"
                  => (/\ Len(executed.effects) = 1
                      /\ response.result.fmt = "service_restart_failed")
            /\ executed.effects[1].arg.answer = "rc0"
                  => (/\ Len(executed.effects) = 2
                      /\ IsCommand(executed.effects[2], "start")))

C15_Witness ==
    /\ WindowsRestartDone
    /\ Len(executed.effects) = 1
    /\ IsCommand(executed.effects[1], "stop")
    /\ executed.effects[1].arg.answer = "rc1"
    /\ response.result.fmt = "service_restart_failed"

\* the platform is neither Linux, Darwin nor Windows, and a service is named
UnsupportedDone ==
    /\ ServiceDone
    /\ system \notin {"Linux", "Darwin", "Windows"}
    /\ Truthy(request.arguments["service_name"])

\* C16: on a platform that is neither Linux, Darwin nor Windows a
\* service_management call that names a service runs no command and returns
\* the unsupported-platform message, whatever the action.
C16_UnsupportedPlatform ==
    UnsupportedDone
        => (/\ RunEffects(executed.effects) = {}
            /\ response.result = Text("unsupported_platform", <<system>>))

C16_Witness ==
    /\ UnsupportedDone
    /\ ActionIs({"start"})
    /\ executed.effects = <<>>
    /\ response.result = Text("unsupported_platform", <<"FreeBSD">>)

\* ---- C17, C18, C19, C20 ----
NonBlank(lines) == SelectSeq(lines, LAMBDA l : l.k # "blank")

\* the lines read whose iteration is over: all but the one in hand
Handled == IF line = None THEN seen ELSE SubSeq(seen, 1, Len(seen) - 1)

\* C17 as stated: a response is written for every line read, the responses
\* are in the order of the lines, and the response to a line is written
\* before the next line is read.
C17_OneResponsePerLine ==
    /\ Len(stdout) = Len(Handled)
    /\ \A k \in 1..Len(stdout) :
          <<stdout[k]>> = handle_line(Handled[k], stdio_tools).printed

\* C17, amended: a response is written for every line read that is not
\* blank and none for a blank one, the responses are in the order of the
\* lines, and the response to a line is written before the next line is
\* read.
C17_OneResponsePerNonBlankLine ==
    /\ Len(stdout) = Len(NonBlank(Handled))
    /\ \A k \in 1..Len(stdout) :
          <<stdout[k]>> = handle_line(NonBlank(Handled)[k], stdio_tools).printed

C17_Witness ==
    /\ pc = "handle"
    /\ Len(seen) = 3
    /\ seen[1].k = "json"
    /\ seen[2].k = "blank"
    /\ Len(stdout) = 1
    /\ stdout[1].id = PyInt(2)

\* a line that json.loads turns into a dict: a parseable request
IsRequestLine(text) == text.k = "json" /\ text.v.t = "dict"

\* exactly one of result and error, and an error with a code and a message
HasResultOrError(message) ==
    /\ ("result" \in DOMAIN message) # ("error" \in DOMAIN message)
    /\ "error" \in DOMAIN message => {"code", "message"} \subseteq DOMAIN message.error

\* C18: every line written has exactly one of result and error, an error has
\* a code and a message, and the line written for a parseable request
\* carries the id of that request, the internal-error answers included.
C18_EveryOutputEchoesId ==
    \A k \in 1..Len(stdout) :
        /\ HasResultOrError(stdout[k])
        /\ "id" \in DOMAIN stdout[k]
        /\ IsRequestLine(NonBlank(Handled)[k])
              => stdout[k].id = id_of(NonBlank(Handled)[k].v)

\* the error code of a line written, 0 for a result
ErrorCode(message) == IF "error" \in DOMAIN message THEN message.error.code ELSE 0

MethodIs(text, methods) ==
    /\ IsRequestLine(text)
    /\ text.v.method # Absent
    /\ text.v.method.t = "str"
    /\ text.v.method.v \in methods

\* a tools/call whose params are a mapping, or left out
IsToolCall(text) ==
    /\ MethodIs(text, {"tools/call"})
    /\ params_of(text.v).t = "dict"

NamesKnownTool(text) ==
    /\ IsToolCall(text)
    /\ name_of(params_of(text.v)).t = "str"
    /\ name_of(params_of(text.v)).v \in Names(stdio_tools)

\* the code the claim gives the answer to a line, 0 for a result
CodeByKind(text, code) ==
    /\ ~IsRequestLine(text) => code = -32700
    /\ (IsRequestLine(text)
          /\ ~MethodIs(text, {"initialize", "tools/list", "tools/call"}))
          => code = -32601
    /\ (IsToolCall(text) /\ ~NamesKnownTool(text)) => code = -32601
    /\ MethodIs(text, {"initialize", "tools/list"}) => code = 0
    /\ (NamesKnownTool(text) /\ arguments_of(params_of(text.v)).t = "dict")
          => code = 0
    /\ code \in {0, -32700, -32601, -32603}

\* C19: a line that is not a well-formed request is answered with -32700, a
\* request with an unrecognized method or a tools/call of an unknown tool
\* with -32601, a fault while a request is handled with -32603; initialize,
\* tools/list and tools/call of a known tool with a mapping of arguments
\* are answered with a result.
C19_CodeByKindOfFailure ==
    \A k \in 1..Len(stdout) : CodeByKind(NonBlank(Handled)[k], ErrorCode(stdout[k]))

\* C20: no request ends the loop: after a response is written, an error of
\* -32700, -32601 or -32603 included, the loop is back at readline; the loop
\* is left only at the end of input or by a keyboard interrupt, never by an
\* exception; and at the end of input it is left, after which the server
\* does nothing more.
C20_LoopSurvivesFailures ==
    [][/\ pc \in {"read", "handle"}
       /\ pc' \in {"read", "handle", "eof", "interrupted"}
       /\ stdout' # stdout => pc' = "read"
       /\ (pc = "handle" /\ pc' # "interrupted") => pc' = "read"
       /\ pc' = "eof" => (pc = "read" /\ stdin = <<>>)
       /\ (pc = "read" /\ stdin = <<>>) => pc' \in {"eof", "interrupted"}]_vars

C20_Witness ==
    /\ pc = "eof"
    /\ Len(stdout) = 3
    /\ ErrorCode(stdout[1]) = -32700
    /\ ErrorCode(stdout[2]) = -32603
    /\ ErrorCode(stdout[3]) = -32601

\* ---- C21 ----
\* the request in hand is a GET /tools not yet answered
ListPending ==
    /\ request.via = "http"
    /\ request.route = "/tools"
    /\ response = None

\* the request in hand is a POST /tools/call not yet answered
CallPending ==
    /\ request.via = "http"
    /\ request.route = "/tools/call"
    /\ response = None

ClaudePending ==
    /\ request.via = "http"
    /\ request.route \in {"/claude/message", "/claude/message-with-tools"}
    /\ response = None

\* the Claude request in hand has been answered
ClaudeDone ==
    /\ request.via = "http"
    /\ request.route \in {"/claude/message", "/claude/message-with-tools"}
    /\ response # None

\* the calls made upstream, and those that raised
UpstreamCalls(effects) == {i \in 1..Len(effects) : effects[i].op = "create"}
UpstreamRaised(effects) ==
    {i \in UpstreamCalls(effects) : effects[i].arg.answer # "ok"}

\* C22: startup leaves no client when the configuration is invalid or the
\* constructor raises, and the client is set by nothing but startup; a Claude
\* request that finds no client is answered with status 500 and a detail
\* without any upstream call, one whose upstream call raises is answered with
\* status 500 and a detail after that one call; GET /tools and POST
\* /tools/call answer as they do with a client.
C22_NoClientIs500 ==
    [][/\ claude_client' # claude_client => request.via = "startup"
       /\ (request.via = "startup"
             /\ (~validate(config) \/ request.constructor # "ok"))
             => claude_client' = None
       /\ (ClaudePending /\ response' # None /\ claude_client = None)
             => (/\ response'.status = 500
                 /\ response'.detail = Text("client_not_initialized", <<>>)
                 /\ UpstreamCalls(executed'.effects) = {})
       /\ (ClaudePending /\ response' # None
             /\ UpstreamRaised(executed'.effects) # {})
             => (/\ response'.status = 500
                 /\ response'.detail.fmt \in {"claude_call_failed", "claude_tools_failed"}
                 /\ Len(executed'.effects) = 1)
       /\ (ListPending /\ response' # None)
             => response' = [tools |-> tools, count |-> Len(tools)]
       /\ (CallPending /\ response' # None)
             => response' = call_tool_response(
                    execute_tool(request.tool_name, request.arguments, system,
                                 procTable, CalmEnv))]_vars

C22_Witness ==
    /\ ClaudeDone
    /\ request.route = "/claude/message-with-tools"
    /\ validate(config)
    /\ claude_client = None
    /\ response.status = 500
    /\ executed.effects = <<>>

\* a /claude/message-with-tools request answered with its body
WithToolsDone ==
    /\ ClaudeDone
    /\ request.route = "/claude/message-with-tools"
    /\ response.status = 200

AsksFor(name) ==
    /\ request.names.t = "list"
    /\ \E i \in 1..Len(request.names.v) : request.names.v[i] = name

\* the positions of the names of a list in the descriptor list
StrictlyAscending(listed) ==
    \A i, j \in 1..Len(listed) :
        i < j => \E a, b \in 1..Len(tools) :
                    a < b /\ tools[a].name = listed[i] /\ tools[b].name = listed[j]

\* C27: the tools a /claude/message-with-tools response refers to are, when
\* the request names a non-empty list, the descriptors whose name is in the
\* list, in descriptor order and each once, names of no descriptor dropped;
\* with no list or an empty one, all the descriptors.
C27_ToolsReferenced ==
    WithToolsDone
        => IF request.names.t = "list" /\ request.names.v # <<>>
           THEN /\ \A n \in Names(tools) \cup {"no_such_tool"} :
                     (\E i \in 1..Len(response.body.available_tools) :
                          response.body.available_tools[i] = n)
                        <=> (n \in Names(tools) /\ AsksFor(n))
                /\ StrictlyAscending(response.body.available_tools)
           ELSE response.body.available_tools = tool_names(tools)

C27_Witness ==
    /\ WithToolsDone
    /\ request.names = PyList(<<"no_such_tool", "hello_world", "calculate">>)
    /\ response.body.available_tools = <<"hello_world", "calculate">>

\* ---- C23 ----
\* a restart of a pid (a positive integer), answered
RestartDone ==
    /\ CallDoneOf("process_control")
    /\ ActionIs({"restart"})
    /\ GivesPid

RequestPid == request.arguments["process_id"].v

Signalled(effects) == \E i \in 1..Len(effects) : effects[i].op = "terminate"
Paused(effects) == \E i \in 1..Len(effects) : effects[i].op = "sleep"

\* C23: a restart of a pid spawns nothing; when the termination signal is
\* delivered, what the call does is, in this order, find the process, send
\* it the termination signal, pause, and return the restart-attempted
\* message; when it is not delivered there is no pause and no such message;
\* and for a pid of no process the process-not-found message is returned
\* with no signal and no pause.
C23_RestartOrder ==
    RestartDone
        => (/\ \A i \in 1..Len(executed.effects) : executed.effects[i].op # "spawn"
            /\ IF Signalled(executed.effects)
               THEN /\ executed.effects = <<Effect("lookup", RequestPid),
                                            Effect("terminate", RequestPid),
                                            Effect("sleep", 1)>>
                    /\ response.result
                          = Text("restart_attempted", <<request.arguments["process_id"]>>)
               ELSE /\ ~Paused(executed.effects)
                    /\ response.result.fmt \in {"process_not_found",
                                                 "process_control_error"}
            /\ RequestPid \notin LivePids(procTable)
                  => (/\ response.result.fmt = "process_not_found"
                      /\ executed.effects = <<>>)
            /\ response.result.fmt = "process_control_error"
                  => RequestPid \in LivePids(procTable))

C23_Witness ==
    /\ RestartDone
    /\ RequestPid \in LivePids(procTable)
    /\ executed.effects = <<Effect("lookup", RequestPid), Effect("terminate", RequestPid),
                            Effect("sleep", 1)>>
    /\ response.result.fmt = "restart_attempted"

\* ---- C24 ----
\* the action of the request is none of the actions given
ActionOutside(actions) == ~ActionIs(actions)

\* C24: a process_control call whose action is none of start, stop, restart,
\* kill, and a service_management call whose service name is empty or whose
\* action is none of status, start, stop, restart, return an error message
\* and have no effect at all: no process is looked up, terminated or killed
\* and no command is run.
C24_ValidationBeforeEffects ==
    /\ (CallDoneOf("process_control")
          /\ ActionOutside({"start", "stop", "restart", "kill"}))
          => (/\ response.result.fmt \in {"target_missing", "unknown_action"}
              /\ executed.effects = <<>>)
    /\ (ServiceDone /\ ~Truthy(request.arguments["service_name"]))
          => (/\ response.result = Text("service_name_missing", <<>>)
              /\ executed.effects = <<>>)
    /\ (ServiceDone /\ Truthy(request.arguments["service_name"])
          /\ ActionOutside({"status", "start", "stop", "restart"}))
          => (/\ response.result.fmt \in {"unknown_action", "unsupported_platform"}
              /\ executed.effects = <<>>)

C24_Witness ==
    /\ CallDoneOf("process_control")
    /\ ActionIs({"bogus"})
    /\ GivesPid
    /\ RequestPid \in LivePids(procTable)
    /\ response.result.fmt = "unknown_action"
    /\ executed.effects = <<>>

\* ---- C25 ----
\* a Windows restart whose sc stop exited zero, so that sc start was run
StartAfterStop ==
    /\ WindowsRestartDone
    /\ Len(executed.effects) = 2
    /\ executed.effects[1].arg.answer = "rc0"
    /\ IsCommand(executed.effects[2], "start")

\* C25: after a stop that exited zero a Windows restart reports success
\* whether the start command exits zero or not; the start command changes
\* the answer only by not returning at all (a timeout), which is reported as
\* the service error.
C25_StartNotInspected ==
    /\ (WindowsRestartDone /\ executed.effects # <<>>
          /\ executed.effects[1].arg.answer = "rc0")
          => StartAfterStop
    /\ StartAfterStop
          => IF executed.effects[2].arg.answer \in {"rc0", "rc1"}
             THEN response.result
                    = Text("service_restart_ok",
                           <<request.arguments["service_name"], "stdout">>)
             ELSE response.result
                    = Text("service_error", <<executed.effects[2].arg.answer>>)

C25_Witness ==
    /\ StartAfterStop
    /\ executed.effects[2].arg.answer = "rc1"
    /\ response.result.fmt = "service_restart_ok"

\* ---- C26 ----
\* the character c twice in a row: the operators ** and //
HasDoubled(cs, c) == \E i \in 1..(Len(cs) - 1) : cs[i] = c /\ cs[i + 1] = c

\* an opening parenthesis right after a numeral or a closing parenthesis
HasCallSyntax(cs) ==
    \E i \in 1..(Len(cs) - 1) :
        cs[i] \in Digits \cup {")", "."} /\ cs[i + 1] = "("

\* C26: an expression that passes the validator and is answered with a
\* computed result has no exponentiation, no floor division and no call in
\* it.
C26_OnlyFourOperators ==
    (/\ CallDoneOf("calculate")
     /\ HasExpressionText
     /\ IsValidated(ExpressionText)
     /\ response.result.fmt = "calc_result")
        => (/\ ~HasDoubled(ExpressionText, "*")
            /\ ~HasDoubled(ExpressionText, "/")
            /\ ~HasCallSyntax(ExpressionText))

\* ---- C28 ----
\* C28: every POST /tools/call is answered with success = true and no error:
\* execute_tool returns a text for every tool name and every argument
\* mapping, an unknown tool and a fault inside a handler included, so the
\* except of call_tool is never entered.
C28_AlwaysSuccess ==
    CallDone
        => (/\ ~executed.out.raised
            /\ response = ToolCallResponse(TRUE, executed.out.value, None))

C28_Witness ==
    /\ CallDoneOf("no_such_tool")
    /\ response.success = TRUE
    /\ response.error = None
    /\ response.result.fmt = "unknown_tool"

\* ---- C29 ----
ControlDone == CallDoneOf("process_control")

PidIsZero == request.arguments["process_id"] = PyInt(0)

\* the advisory message of the action of the request
AdvisoryOf(action) ==
    CASE action = "start" -> "start_not_executed"
      [] action = "stop" -> "stop_not_executed"
      [] action = "restart" -> "restart_not_executed"
      [] action = "kill" -> "kill_not_executed"

\* C29: a pid of 0 counts as no pid, and a pid is preferred to a name: with
\* pid 0 and no name the missing-target error is returned; with pid 0 and a
\* name the advisory message of the action, naming the process, with no
\* process looked up or signalled; with a pid other than 0 and a name, stop,
\* restart and kill go for the pid, their answer naming the pid and never
\* the name.
C29_FalsyPidAndPreference ==
    /\ (ControlDone /\ PidIsZero /\ request.arguments["process_name"] = Absent)
          => (/\ response.result = Text("target_missing", <<>>)
              /\ executed.effects = <<>>)
    /\ (ControlDone /\ PidIsZero /\ GivesName
          /\ ActionIs({"start", "stop", "restart", "kill"}))
          => (/\ response.result
                    = Text(AdvisoryOf(request.arguments["action"].v),
                           <<request.arguments["process_name"]>>)
              /\ executed.effects = <<>>)
    /\ (ControlDone /\ GivesPid /\ GivesName /\ ActionIs({"stop", "restart", "kill"}))
          => (/\ response.result.fmt \in {"stop_sent", "restart_attempted", "killed",
                                           "process_not_found", "process_control_error"}
              /\ response.result.fmt # "process_control_error"
                    => response.result.args = <<request.arguments["process_id"]>>
              /\ \A i \in ProcessEffects(executed.effects) :
                    executed.effects[i].arg = RequestPid
              /\ response.result.fmt \in {"stop_sent", "restart_attempted", "killed"}
                    => SignalEffects(executed.effects) # {})

C29_Witness ==
    /\ ControlDone
    /\ PidIsZero
    /\ GivesName
    /\ ActionIs({"kill"})
    /\ response.result.fmt = "kill_not_executed"
    /\ executed.effects = <<>>

\* ---- C30 ----
\* a line that parses as JSON and is not an object
IsNonObject(text) == text.k = "json" /\ text.v.t # "dict"

\* a request whose params are given and are not a mapping
ParamsNotMapping(text) ==
    /\ IsRequestLine(text)
    /\ text.v.params # Absent
    /\ text.v.params.t # "dict"

\* a request whose params are a mapping with arguments that are not one
ArgumentsNotMapping(text) ==
    /\ IsRequestLine(text)
    /\ text.v.params # Absent
    /\ text.v.params.t = "dict"
    /\ text.v.params.arguments # Absent
    /\ text.v.params.arguments.t # "dict"

IsInternalErrorNoId(message) == ErrorCode(message) = -32603 /\ message.id = None

\* C30 as stated: a blank line gets no output line, and a line that is JSON
\* and not an object, or a request whose params or whose tool arguments are
\* not a mapping, gets the -32603 error with id null.
C30_NotMappingIsInternalError ==
    /\ Len(stdout) = Len(NonBlank(Handled))
    /\ \A k \in 1..Len(stdout) :
          (\/ IsNonObject(NonBlank(Handled)[k])
           \/ ParamsNotMapping(NonBlank(Handled)[k])
           \/ ArgumentsNotMapping(NonBlank(Handled)[k]))
              => IsInternalErrorNoId(stdout[k])

\* what the amended claim says of the lines answered so far
NotMappingWhereRead ==
    /\ Len(stdout) = Len(NonBlank(Handled))
    /\ \A k \in 1..Len(stdout) :
          (\/ IsNonObject(NonBlank(Handled)[k])
           \/ (/\ ParamsNotMapping(NonBlank(Handled)[k])
               /\ MethodIs(NonBlank(Handled)[k], {"tools/call"}))
           \/ (/\ ArgumentsNotMapping(NonBlank(Handled)[k])
               /\ NamesKnownTool(NonBlank(Handled)[k])
               /\ NonBlank(Handled)[k].v.params.name.v = "hello_world"))
              => IsInternalErrorNoId(stdout[k])

\* C30, amended: a blank line gets no output line and the loop reads on; a
\* line that is JSON and not an object, a tools/call whose params are not a
\* mapping, and a tools/call of hello_world whose arguments are not a
\* mapping get the -32603 error with id null, whatever id the request had.
C30_NotMappingWhereRead ==
    [][/\ NotMappingWhereRead
       /\ NotMappingWhereRead'
       /\ (pc = "handle" /\ line.k = "blank" /\ pc' # "interrupted")
             => (stdout' = stdout /\ pc' = "read")]_vars

C30_Witness ==
    /\ pc = "read"
    /\ Len(seen) = 2
    /\ seen[1] = BlankLine
    /\ seen[2] = JsonLine(JsonRequest(PyStr("tools/call"), HelloParams(PyStr("x")),
                                      PyInt(7)))
    /\ Len(stdout) = 1
    /\ IsInternalErrorNoId(stdout[1])

=============================================================================
